---- MODULE Spec2Model ----
(***************************************************************************)
(* Model of the uptime client's connectivity manager                       *)
(* (uptime-client/src/services/websocket.js, lines 1-425) together with    *)
(* the parts of the monitoring service that call into it.                  *)
(*                                                                         *)
(* Every JavaScript function is an operator from a record of the module's  *)
(* variables to the record after the call; every timer callback, transport *)
(* signal and exported call is one action that applies the operators.      *)
(***************************************************************************)
EXTENDS Integers, Sequences, FiniteSets, TLC

VARIABLES
  started,              \* websocket.init() has run
  urlInvalid,           \* new WebSocket(wsUrl) throws: fixed by the configured URL
  ws,                   \* state of the transport ws refers to ("null" if none)
  old,                  \* replaced transports whose signals are still outstanding
  isConnected,
  reconnectAttempts,
  reconnectTimeout,     \* the handle kept in reconnectTimeout
  pingInterval,         \* pingInterval holds a live interval handle
  pendingMessages,
  connectionStartTime,  \* "null", "recent" (< 5000 ms ago) or "old"
  registered,           \* userService.isRegistered()
  errorCount,           \* monitoringData.errors.count
  op,                   \* the operation the last step performed
  ret,                  \* what the operation returned
  trace,                \* the internal calls the last step made, in order
  transmitted,          \* the messages the last step put on the wire, in order
  noticed,              \* a serverShutdown notice was handled, no reconnect scheduled since
  monitorStarted,       \* monitor.init() has run
  startupPending,       \* the initial collectMetrics() of monitor.init() has not resolved
  monitoringData,       \* startTime, lastRewardTime, metrics, monitoringTasks, history
  disk,                 \* data/monitoring.json: <<>> if absent, else <<its content>>
  clock,                \* Date.now(), in ms
  cadence,              \* the interval given in ms and the cron job last scheduled for it
  minute,               \* the wall clock, in whole minutes since the start of an hour
  jobs,                 \* the jobs registered with cron.schedule, in order of registration
  proc                  \* the process: serving, shutting down or exited

wsVars == <<started, urlInvalid, ws, old, isConnected, reconnectAttempts, reconnectTimeout,
            pingInterval, pendingMessages, connectionStartTime,
            registered, errorCount, op, ret, trace, transmitted, noticed>>

monVars == <<monitorStarted, startupPending, monitoringData, disk, clock>>

schedVars == <<cadence, minute, jobs>>

vars == <<wsVars, monVars, schedVars, proc>>

---------------------------------------------------------------------------
(* Program constants *)

baseDelay == 5000
maxReconnectAttempts == 10
maxDelayCap == 30000
delayCeiling == 60000
cooldownDelay == 300000
serverShutdownAttempts == 5
recoveryThreshold == 5
historyLimit == 100
monitoringInterval == 60000
rewardInterval == 86400000
rewardThreshold == 90
msPerSecond == 1000
percent == 100
msPerMinute == 60000

(* Bounds of the model *)

MaxOld == 1           \* replaced transports with signals outstanding
MaxQueue == 2         \* messages held in pendingMessages
StackLimit == 1       \* ws.send failures in a row that end with a ping that goes through
MaxUnwind == StackLimit + 1   \* catch blocks re-entered while a RangeError unwinds
AttemptsBound == 2 * maxReconnectAttempts   \* largest value of reconnectAttempts explored
DeepAttempts == 1     \* beyond it, only an empty queue and no metrics errors are explored
RandDenom == 100      \* Math.random() is 0 or (RandDenom-1)/RandDenom, its extremes
MaxErrors == recoveryThreshold   \* largest value of errors.count explored
MaxTicks == 102       \* cron ticks of the metrics collection
FirstBoot == 1000     \* Date.now() when the first process loads the modules
MaxClock == FirstBoot + MaxTicks * monitoringInterval
EarlyTicks == 2       \* ticks during which tasks, failing writes and idle cpu readings are explored
MaxTasks == 1         \* monitoring tasks held at a time
ShortHistory == 2     \* tasks, errors and restarts are explored on a history shorter than this
EarlyErrors == 2      \* failing ticks in a row explored by the monitoring service
TaskIds == {1, 2}
TaskInterval == 120000

NoOld == [failing |-> 0, closing |-> 0, live |-> 0]
Priorities == {"high", "normal", "low"}
AppTypes == {"taskResult"}
InboundTypes == {"authResponse", "pong", "requestMetrics", "reward", "task",
                 "serverShutdown", "unknown", "untyped", "malformed"}
Rnd == {0, RandDenom - 1}
NoTimer == [state |-> "null", kind |-> "none", delay |-> 0]

Min(a, b) == IF a <= b THEN a ELSE b
Max(a, b) == IF a >= b THEN a ELSE b

RECURSIVE Pow2(_)
Pow2(n) == IF n <= 0 THEN 1 ELSE 2 * Pow2(n - 1)

Range(q) == {q[i] : i \in 1..Len(q)}

---------------------------------------------------------------------------
(* The variables as one record, with the bookkeeping of the step in progress *)

Cur ==
  [ws |-> ws, old |-> old, isConnected |-> isConnected,
   reconnectAttempts |-> reconnectAttempts, reconnectTimeout |-> reconnectTimeout,
   pingInterval |-> pingInterval,
   pendingMessages |-> pendingMessages, connectionStartTime |-> connectionStartTime,
   trace |-> <<>>, transmitted |-> <<>>, ret |-> "undefined", ok |-> TRUE]

(* A message object; data and timestamp play no part in the manager. *)
Message(type, priority) == [type |-> type, priority |-> priority]

---------------------------------------------------------------------------
(* The transport (the ws package), as far as the manager relies on it *)

(* A transport is "connecting", "open", "failing" (its 'error' signal is    *)
(* outstanding, 'close' follows), "closing" ('close' is outstanding) or     *)
(* "closed".                                                                *)
(* terminate(): a connecting transport reports an error and then closes,   *)
(* an open one closes; both signals are delivered later.                   *)
terminate(s) ==
  [s EXCEPT !.ws = CASE @ = "connecting" -> "failing"
                     [] @ = "open" -> "closing"
                     [] OTHER -> @,
            !.trace = IF s.ws = "null" THEN @ ELSE Append(@, "terminate")]

(* ws.send cannot succeed on a null or a still connecting transport. *)
MustThrow(s) == s.ws \in {"null", "connecting"}

(* A ws.send call that does not throw: the bytes reach the wire only if the *)
(* transport is open.                                                       *)
wsSend(s, msg) ==
  IF s.ws = "open" THEN [s EXCEPT !.transmitted = Append(@, msg)] ELSE s

---------------------------------------------------------------------------
(* websocket.js *)

(* backoffDelay with a jitter of up to half of maxDelay *)
backoffDelayWideJitter(attempts, rnd) ==
  LET maxDelay == Min(maxDelayCap, baseDelay * Pow2(attempts - 1))
      jitter == (rnd * 5 * maxDelay) \div (10 * RandDenom)
  IN Min(maxDelay + jitter, delayCeiling)

backoffDelay(attempts, rnd) ==
  LET maxDelay == Min(maxDelayCap, baseDelay * Pow2(attempts - 1))
      jitter == (rnd * 3 * maxDelay) \div (10 * RandDenom)
  IN Min(maxDelay + jitter, delayCeiling)

(* The entry of trace for the clearTimeout of scheduleReconnect: the handle *)
(* cleared may be that of a timer that has fired already.                  *)
Cleared(t) ==
  CASE t.state = "null" -> <<>>
    [] t.state = "pending" /\ t.kind = "backoff" -> <<"clearTimeout(backoff, pending)">>
    [] t.state = "pending" /\ t.kind = "cooldown" -> <<"clearTimeout(cooldown, pending)">>
    [] t.state = "fired" /\ t.kind = "backoff" -> <<"clearTimeout(backoff, fired)">>
    [] t.state = "fired" /\ t.kind = "cooldown" -> <<"clearTimeout(cooldown, fired)">>

(* scheduleReconnect that gives up beyond maxReconnectAttempts: it sets no *)
(* timer, and reconnectTimeout keeps the handle it has cleared            *)
scheduleReconnectGivesUp(s, rnd) ==
  LET n == s.reconnectAttempts + 1
  IN [s EXCEPT
        !.reconnectAttempts = n,
        !.reconnectTimeout =
           IF n <= maxReconnectAttempts
           THEN [state |-> "pending", kind |-> "backoff",
                 delay |-> backoffDelay(n, rnd)]
           ELSE IF @.state = "null" THEN @
           ELSE [@ EXCEPT !.state = "fired", !.delay = 0],
        !.trace = @ \o Cleared(s.reconnectTimeout) \o <<"scheduleReconnect">>]

scheduleReconnect(s, rnd) ==
  LET n == s.reconnectAttempts + 1
  IN [s EXCEPT
        !.reconnectAttempts = n,
        !.reconnectTimeout =
           IF n <= maxReconnectAttempts
           THEN [state |-> "pending", kind |-> "backoff",
                 delay |-> backoffDelay(n, rnd)]
           ELSE [state |-> "pending", kind |-> "cooldown",
                 delay |-> cooldownDelay],
        !.trace = @ \o Cleared(s.reconnectTimeout) \o <<"scheduleReconnect">>]

(* The transports no variable refers to any more once ws is assigned a new *)
(* one: the object ws referred to joins them as it is, with its signals     *)
(* outstanding if it was terminated or has failed, alive otherwise.         *)
Replaced(s) ==
  [failing |-> s.old.failing + (IF s.ws = "failing" THEN 1 ELSE 0),
   closing |-> s.old.closing + (IF s.ws = "closing" THEN 1 ELSE 0),
   live |-> s.old.live + (IF s.ws \in {"connecting", "open"} THEN 1 ELSE 0)]

(* connect that opens the new transport without terminating the old one *)
connectKeepsOld(s, invalid, in) ==
  LET s1 == [s EXCEPT !.connectionStartTime = "recent",
                      !.trace = Append(@, "connect")]
      left == Replaced(s1)
  IN IF invalid THEN scheduleReconnect(s1, in.rnd)
     ELSE [s1 EXCEPT !.ws = "connecting", !.old = left,
                     !.ok = left.failing + left.closing + left.live <= MaxOld]

(* in: [rnd |-> numerator of Math.random(),                                *)
(*      fails |-> number of consecutive ws.send calls that throw,           *)
(*      unwind |-> catch blocks entered while a stack overflow unwinds,     *)
(*      throws |-> the ws.send calls of the flush that throw]               *)
connect(s, invalid, in) ==
  LET s1 == [terminate(s) EXCEPT !.connectionStartTime = "recent",
                                 !.trace = Append(@, "connect")]
      left == Replaced(s1)
  IN IF invalid THEN scheduleReconnect(s1, in.rnd)
     ELSE [s1 EXCEPT !.ws = "connecting", !.old = left,
                     !.ok = left.failing + left.closing + left.live <= MaxOld]

(* The catch block of checkConnection. When the error is the RangeError of *)
(* an exhausted call stack, scheduleReconnect may itself run out of stack  *)
(* after its increment; the error then reaches the catch block of the      *)
(* enclosing checkConnection frame, which runs the block again.            *)
forceReconnect(s, in) ==
  LET s1 == terminate([s EXCEPT !.isConnected = FALSE])
      s2 == [s1 EXCEPT !.reconnectAttempts = @ + (in.unwind - 1)]
  IN [scheduleReconnect(s2, in.rnd) EXCEPT !.ret = "false"]

RECURSIVE send(_, _, _, _, _)
RECURSIVE checkConnection(_, _, _, _)

(* send that queues a message of any priority while not connected *)
sendQueuesAny(s, msg, invalid, fails, in) ==
  IF ~s.isConnected
  THEN [s EXCEPT !.pendingMessages = Append(@, msg), !.ret = "false"]
  ELSE IF fails = 0
  THEN [wsSend(s, msg) EXCEPT !.ret = "true"]
  ELSE LET s1 == [s EXCEPT !.pendingMessages =
                               IF msg.priority = "high" THEN Append(@, msg) ELSE @,
                           !.trace = Append(@, "throw")]
       IN [checkConnection(s1, invalid, fails - 1, in) EXCEPT !.ret = "false"]

(* send that reports success for a message it queued while not connected *)
sendQueuedIsSent(s, msg, invalid, fails, in) ==
  IF ~s.isConnected
  THEN [s EXCEPT !.pendingMessages = IF msg.priority = "high" THEN Append(@, msg) ELSE @,
                 !.ret = IF msg.priority = "high" THEN "true" ELSE "false"]
  ELSE IF fails = 0
  THEN [wsSend(s, msg) EXCEPT !.ret = "true"]
  ELSE LET s1 == [s EXCEPT !.pendingMessages =
                               IF msg.priority = "high" THEN Append(@, msg) ELSE @,
                           !.trace = Append(@, "throw")]
       IN [checkConnection(s1, invalid, fails - 1, in) EXCEPT !.ret = "false"]

(* fails: how many of the coming ws.send calls throw. Each ws.send that     *)
(* throws makes send call checkConnection, which sends a ping through send: *)
(* after up to StackLimit failures in a row a ping goes through; when more  *)
(* fail (in.fails > StackLimit) the recursion ends only when the call stack *)
(* is exhausted, with a RangeError that a catch block of checkConnection    *)
(* receives.                                                                *)
send(s, msg, invalid, fails, in) ==
  IF ~s.isConnected
  THEN [s EXCEPT !.pendingMessages = IF msg.priority = "high" THEN Append(@, msg) ELSE @,
                 !.ret = "false"]
  ELSE IF fails = 0
  THEN [wsSend(s, msg) EXCEPT !.ret = "true"]
  ELSE LET s1 == [s EXCEPT !.pendingMessages =
                               IF msg.priority = "high" THEN Append(@, msg) ELSE @,
                           !.trace = Append(@, "throw")]
       IN [checkConnection(s1, invalid, fails - 1, in) EXCEPT !.ret = "false"]

checkConnection(s, invalid, fails, in) ==
  IF ~s.isConnected
  THEN IF s.reconnectTimeout.state = "null"
       THEN [connect(s, invalid, in) EXCEPT !.ret = "false"]
       ELSE [s EXCEPT !.ret = "false"]
  ELSE IF fails = 0 /\ in.fails > StackLimit
  THEN forceReconnect(s, in)
  ELSE \* sendPing() never throws: send() catches the error of ws.send itself
       [send(s, Message("ping", "low"), invalid, fails, in) EXCEPT !.ret = "true"]

sendPing(s, invalid, in) == send(s, Message("ping", "low"), invalid, in.fails, in)

authenticate(s, invalid, in) == send(s, Message("authenticate", "high"), invalid, in.fails, in)

sendMetrics(s, isReg, invalid, in) ==
  IF ~isReg THEN [s EXCEPT !.ret = "false"]
  ELSE send(s, Message("metrics", "normal"), invalid, in.fails, in)

isSocketConnected(s) == s.isConnected

(* A flush that takes the newest queued message first *)
RECURSIVE flushNewestFirst(_, _, _, _)
flushNewestFirst(s, msgs, i, throws) ==
  IF i > Len(msgs) THEN s
  ELSE LET m == msgs[Len(msgs) + 1 - i]
           s1 == IF throws[i]
                 THEN [s EXCEPT !.pendingMessages =
                                   IF m.priority = "high" THEN Append(@, m) ELSE @,
                                !.trace = Append(@, "throw")]
                 ELSE wsSend(s, m)
       IN flushNewestFirst(s1, msgs, i + 1, throws)

(* The forEach of handleOpen over messagesToSend; throws[i] tells whether   *)
(* the i-th ws.send throws.                                                 *)
RECURSIVE flush(_, _, _, _)
flush(s, msgs, i, throws) ==
  IF i > Len(msgs) THEN s
  ELSE LET m == msgs[i]
           s1 == IF throws[i]
                 THEN [s EXCEPT !.pendingMessages =
                                   IF m.priority = "high" THEN Append(@, m) ELSE @,
                                !.trace = Append(@, "throw")]
                 ELSE wsSend(s, m)
       IN flush(s1, msgs, i + 1, throws)

(* handleOpen that does not clear pendingMessages before the flush *)
handleOpenKeepsQueue(s, isReg, invalid, in) ==
  LET s1 == [s EXCEPT !.isConnected = TRUE,
                      !.reconnectAttempts = 0,
                      !.reconnectTimeout = NoTimer,
                      !.pingInterval = TRUE,
                      !.trace = Append(@, "startPing")]
      s2 == IF isReg THEN authenticate([s1 EXCEPT !.trace = Append(@, "authenticate")],
                                       invalid, in)
            ELSE s1
      s3 == IF Len(s2.pendingMessages) > 0
            THEN flush([s2 EXCEPT !.trace = Append(@, "flush")],
                       s2.pendingMessages, 1, in.throws)
            ELSE s2
  IN [s3 EXCEPT !.ret = "undefined"]

handleOpen(s, isReg, invalid, in) ==
  LET s1 == [s EXCEPT !.isConnected = TRUE,
                      !.reconnectAttempts = 0,
                      !.reconnectTimeout = NoTimer,
                      !.pingInterval = TRUE,
                      !.trace = Append(@, "startPing")]
      s2 == IF isReg THEN authenticate([s1 EXCEPT !.trace = Append(@, "authenticate")],
                                       invalid, in)
            ELSE s1
      s3 == IF Len(s2.pendingMessages) > 0
            THEN flush([s2 EXCEPT !.pendingMessages = <<>>, !.trace = Append(@, "flush")],
                       s2.pendingMessages, 1, in.throws)
            ELSE s2
  IN [s3 EXCEPT !.ret = "undefined"]

(* handleError that adds 2 whenever the error comes *)
handleErrorAnyTime(s) ==
  [s EXCEPT !.reconnectAttempts = @ + 2]

(* handleError that assigns 2 where the code adds 2 *)
handleErrorAssigns(s) ==
  IF s.connectionStartTime = "recent"
  THEN [s EXCEPT !.reconnectAttempts = 2]
  ELSE s

handleError(s) ==
  IF s.connectionStartTime = "recent"
  THEN [s EXCEPT !.reconnectAttempts = @ + 2]
  ELSE s

(* handleClose that leaves isConnected as it is *)
handleCloseKeepsPhase(s, in) ==
  scheduleReconnect([s EXCEPT !.pingInterval = FALSE], in.rnd)

handleClose(s, in) ==
  scheduleReconnect([s EXCEPT !.isConnected = FALSE, !.pingInterval = FALSE], in.rnd)


(* handleMessage and the messageHandlers. A payload that does not parse    *)
(* ("malformed") and a type without handler ("unknown") are logged and     *)
(* dropped; authResponse, pong and reward do not touch the manager. The    *)
(* collection that requestMetrics awaits is taken to complete within the   *)
(* step.                                                                   *)
handleMessageUnknownBacksOff(s, type, isReg, invalid, in) ==
  CASE type \in {"serverShutdown", "unknown", "untyped", "malformed"} ->
         [s EXCEPT !.reconnectAttempts = Max(@, serverShutdownAttempts)]
    [] type = "task" ->
         send(s, Message("taskResult", "high"), invalid, in.fails, in)
    [] type = "requestMetrics" ->
         sendMetrics(s, isReg, invalid, in)
    [] OTHER -> s

handleMessage(s, type, isReg, invalid, in) ==
  CASE type = "serverShutdown" ->
         [s EXCEPT !.reconnectAttempts = Max(@, serverShutdownAttempts)]
    [] type = "task" ->
         send(s, Message("taskResult", "high"), invalid, in.fails, in)
    [] type = "requestMetrics" ->
         sendMetrics(s, isReg, invalid, in)
    [] OTHER -> s

---------------------------------------------------------------------------
(* JavaScript numbers: IEEE 754 binary64, results rounded to the nearest    *)
(* representable value, ties to the even one. A positive number is kept as  *)
(* [m |-> its 53 significant bits, the most significant first,              *)
(*  e |-> the exponent of the last of them]: the sum of m[i] * 2^(e+53-i).  *)

Precision == 53

(* The bits of a natural number, without leading zeros *)
RECURSIVE Bits(_)
Bits(n) == IF n = 0 THEN <<>> ELSE Append(Bits(n \div 2), n % 2)

(* The bits of the successor *)
RECURSIVE Incr(_)
Incr(b) ==
  IF b = <<>> THEN <<1>>
  ELSE IF b[Len(b)] = 0 THEN [b EXCEPT ![Len(b)] = 1]
  ELSE Append(Incr(SubSeq(b, 1, Len(b) - 1)), 0)

Sign(x) == IF x > 0 THEN 1 ELSE IF x < 0 THEN -1 ELSE 0

(* Rounding of 53 kept bits whose last has exponent e; rest is the sign of  *)
(* (what was cut off) - (half a unit of the last kept bit).                 *)
Round(kept, rest, e) ==
  LET up == rest > 0 \/ (rest = 0 /\ kept[Precision] = 1)
      r == IF up THEN Incr(kept) ELSE kept
  IN IF Len(r) > Precision THEN [m |-> SubSeq(r, 1, Precision), e |-> e + 1]
     ELSE [m |-> r, e |-> e]

(* The quotient whose bits so far are acc (the last of exponent k), with    *)
(* remainder r of the division by b: further bits until 53 are significant  *)
RECURSIVE DivBits(_, _, _, _)
DivBits(acc, r, b, k) ==
  IF Len(acc) = Precision \/ r < 0 \/ k > 0 THEN Round(acc, Sign(2 * r - b), k)
  ELSE LET bit == IF 2 * r >= b THEN 1 ELSE 0
       IN DivBits(IF acc = <<>> /\ bit = 0 THEN acc ELSE Append(acc, bit),
                  2 * r - bit * b, b, k - 1)

(* a / b for integers a > 0, b > 0 *)
DivInt(a, b) == DivBits(Bits(a \div b), a % b, b, 0)

(* The bits of (m[1..i] as a number) * c + carry, followed by low *)
RECURSIVE MulBits(_, _, _, _, _)
MulBits(m, i, c, carry, low) ==
  IF i = 0 \/ carry < 0 \/ Len(low) < 0 THEN Bits(carry) \o low
  ELSE MulBits(m, i - 1, c, (m[i] * c + carry) \div 2,
               <<(m[i] * c + carry) % 2>> \o low)

TailSign(tail) ==
  IF tail = <<>> \/ tail[1] = 0 THEN -1
  ELSE IF \E i \in 2..Len(tail) : tail[i] = 1 THEN 1 ELSE 0

(* x * c for a number x and an integer c > 0 *)
Times(x, c) ==
  LET p == MulBits(x.m, Precision, c, 0, <<>>)
      extra == Len(p) - Precision
  IN Round(SubSeq(p, 1, Precision), TailSign(SubSeq(p, Precision + 1, Len(p))),
           x.e + extra)

(* Long division of the bits m by b, from bit i on: quotient bits without   *)
(* leading zeros, and remainder                                             *)
RECURSIVE LongDiv(_, _, _, _, _)
LongDiv(m, i, r, b, acc) ==
  IF i > Len(m) \/ r < 0 \/ Len(acc) < 0 THEN [q |-> acc, r |-> r]
  ELSE LET v == 2 * r + m[i]
           bit == IF v >= b THEN 1 ELSE 0
       IN LongDiv(m, i + 1, v - bit * b, b,
                  IF acc = <<>> /\ bit = 0 THEN acc ELSE Append(acc, bit))

(* x / b for a number x and an integer b > 0 *)
Over(x, b) ==
  LET d == LongDiv(x.m, 1, 0, b, <<>>)
  IN DivBits(d.q, d.r, b, x.e)

(* The number that is the integer n > 0 *)
Num(n) ==
  LET b == Bits(n)
  IN [m |-> b \o [i \in 1..(Precision - Len(b)) |-> 0], e |-> Len(b) - Precision]

LexGE(a, b) ==
  a = b \/ \E i \in 1..Len(a) : a[i] > b[i] /\ \A j \in 1..(i - 1) : a[j] = b[j]

(* x >= y *)
GE(x, y) == x.e > y.e \/ (x.e = y.e /\ LexGE(x.m, y.m))

(* The value of the bits b *)
RECURSIVE Value(_)
Value(b) == IF b = <<>> THEN 0 ELSE 2 * Value(SubSeq(b, 1, Len(b) - 1)) + b[Len(b)]

(* Math.ceil(x) for a number x *)
Ceil(x) ==
  LET n == Max(0, Min(Precision, Precision + x.e))
  IN Value(SubSeq(x.m, 1, n)) * Pow2(Max(0, x.e))
     + (IF \E i \in (n + 1)..Precision : x.m[i] = 1 THEN 1 ELSE 0)

---------------------------------------------------------------------------
(* monitor.js *)

(* null, where a time in ms or a number is expected *)
null == -1

(* JavaScript truthiness of a value that is null or a number *)
Truthy(x) == x # null /\ x # 0

(* metrics of the module's initial monitoringData: uptime is {} *)
NoMetrics ==
  [timestamp |-> null, cpu |-> null, memory |-> "empty", disk |-> "empty",
   network |-> "empty", uptime |-> null]

(* monitoringData as the module creates it when it is loaded at time now *)
DefaultData(now) ==
  [startTime |-> now, lastRewardTime |-> null, metrics |-> NoMetrics,
   monitoringTasks |-> <<>>, history |-> <<>>]

(* What a collection finds: whether si.fsSize() and si.networkStats()      *)
(* reject or take longer than the 5000 ms of the race                      *)
DomainInputs == [disk : BOOLEAN, network : BOOLEAN]
Healthy == [disk |-> FALSE, network |-> FALSE]

(* The value of metrics.disk and metrics.network: the mapped readings, or  *)
(* { error: error.message } from the catch block of the domain             *)
Domain(fails) == IF fails THEN "error" ELSE "readings"

(* The logger.warn calls of the two catch blocks *)
Warnings(io) ==
  (IF io.disk THEN <<"warnDisk">> ELSE <<>>)
    \o (IF io.network THEN <<"warnNetwork">> ELSE <<>>)

(* A collection in which a failing domain leaves the snapshot without the  *)
(* readings taken before it                                                *)
collectMetricsDomainAborts(d, now, cpu, io) ==
  IF io.disk \/ io.network
  THEN [NoMetrics EXCEPT !.timestamp = now, !.disk = Domain(io.disk),
                         !.network = Domain(io.network)]
  ELSE [timestamp |-> now, cpu |-> cpu, memory |-> "readings",
        disk |-> "readings", network |-> "readings", uptime |-> now - d.startTime]

(* collectMetrics() when the cpu reading arrives: the snapshot, with the   *)
(* cpu usage in percent, the memory readings, the disk and network domains *)
(* and the client uptime kept in ms (the code stores (Date.now() -         *)
(* startTime) / 1000).                                                     *)
collectMetrics(d, now, cpu, io) ==
  [timestamp |-> now, cpu |-> cpu, memory |-> "readings",
   disk |-> Domain(io.disk), network |-> Domain(io.network),
   uptime |-> now - d.startTime]

(* The point pushed on the history, identified by its timestamp (its cpu,  *)
(* memory and uptime readings are those of the snapshot of that time)      *)
HistoryPoint(metrics) == metrics.timestamp

(* processMetrics without the cap on the history *)
processMetricsKeepsAll(d, metrics) ==
  [d EXCEPT !.metrics = metrics, !.history = Append(@, HistoryPoint(metrics))]

(* processMetrics that evicts the newest point of a full history *)
processMetricsEvictsNewest(d, metrics) ==
  [d EXCEPT !.metrics = metrics,
            !.history = IF Len(@) + 1 > historyLimit THEN @
                        ELSE Append(@, HistoryPoint(metrics))]

(* processMetrics(metrics), lines 553-572; its call of sendMetrics is made *)
(* by the steps.                                                           *)
processMetrics(d, metrics) ==
  LET pushed == Append(d.history, HistoryPoint(metrics))
  IN [d EXCEPT !.metrics = metrics,
               !.history = IF Len(pushed) > historyLimit THEN Tail(pushed) ELSE pushed]

(* A monitoring task; type, target and lastResult play no part here. *)
Task(id, interval) == [id |-> id, interval |-> interval, lastRunTime |-> null]

(* addMonitoringTask, for a task that carries an id *)
addMonitoringTask(d, task) == [d EXCEPT !.monitoringTasks = Append(@, task)]

(* findIndex: the first index whose task has the id, 0 if none *)
findIndex(tasks, id) ==
  IF \E i \in 1..Len(tasks) : tasks[i].id = id
  THEN CHOOSE i \in 1..Len(tasks) :
         tasks[i].id = id /\ \A j \in 1..(i - 1) : tasks[j].id # id
  ELSE 0

removeMonitoringTask(d, id) ==
  LET i == findIndex(d.monitoringTasks, id)
  IN IF i = 0 THEN d
     ELSE [d EXCEPT !.monitoringTasks = SubSeq(@, 1, i - 1) \o SubSeq(@, i + 1, Len(@))]

(* The object persistData() writes; JSON.stringify and JSON.parse give back *)
(* its numbers, nulls, arrays and plain objects as they are.                *)
dataToPersist(d) ==
  [startTime |-> d.startTime, lastRewardTime |-> d.lastRewardTime,
   history |-> d.history, monitoringTasks |-> d.monitoringTasks]

(* A persistData() that writes nothing *)
persistDataKeepsFile(d, file, writeFails) == file

(* persistData(): the file after the call; writeFileSync may throw, and    *)
(* the file is then left as it was.                                        *)
persistData(d, file, writeFails) == IF writeFails THEN file ELSE <<dataToPersist(d)>>

Field(data, k, default) == IF k \in DOMAIN data THEN data[k] ELSE default

(* loadPersistedData that takes the persisted startTime *)
loadPersistedDataTakesPersisted(d, file) ==
  IF file = <<>> THEN d
  ELSE LET data == file[1]
       IN [startTime |-> Field(data, "startTime", d.startTime),
           lastRewardTime |-> Field(data, "lastRewardTime", d.lastRewardTime),
           metrics |-> d.metrics,
           monitoringTasks |-> Field(data, "monitoringTasks", d.monitoringTasks),
           history |-> Field(data, "history", d.history)]

(* loadPersistedData that restores the metrics history only *)
loadPersistedDataHistoryOnly(d, file) ==
  IF file = <<>> THEN d
  ELSE [d EXCEPT !.history = Field(file[1], "history", d.history)]

(* loadPersistedData(): {...monitoringData, ...data, startTime: Math.min(  *)
(* currentStartTime, data.startTime || currentStartTime)}                  *)
loadPersistedData(d, file) ==
  IF file = <<>> THEN d
  ELSE LET data == file[1]
           currentStartTime == d.startTime
           persisted == Field(data, "startTime", null)
       IN [startTime |-> Min(currentStartTime,
                             IF Truthy(persisted) THEN persisted ELSE currentStartTime),
           lastRewardTime |-> Field(data, "lastRewardTime", d.lastRewardTime),
           metrics |-> Field(data, "metrics", d.metrics),
           monitoringTasks |-> Field(data, "monitoringTasks", d.monitoringTasks),
           history |-> Field(data, "history", d.history)]

(* (monitoringData.metrics.uptime.client * 1000 / totalTime) * 100, for a  *)
(* client uptime of uptime ms (the stored value is uptime / 1000) and a     *)
(* totalTime in ms, both positive; every operation rounds.                  *)
uptimePercentage(uptime, totalTime) ==
  CHOOSE p \in
    {Times(q, percent) :
       q \in {Over(b, totalTime) :
                b \in {Times(a, msPerSecond) :
                         a \in {DivInt(uptime, msPerSecond)}}}} : TRUE

(* uptimePercentage >= 90. Without a snapshot uptime.client is undefined    *)
(* and the percentage NaN; 0 / 0 is NaN and x / 0 is Infinity.              *)
AboveThreshold(uptime, totalTime) ==
  IF uptime = null THEN FALSE
  ELSE IF totalTime = 0 THEN uptime > 0
  ELSE IF uptime = 0 THEN FALSE
  ELSE GE(uptimePercentage(uptime, totalTime), Num(rewardThreshold))

(* distributeRewards that moves lastRewardTime before the outcome of the    *)
(* transaction is known                                                     *)
distributeRewardsMarksFirst(d, now, sendFails) ==
  IF Truthy(d.lastRewardTime) /\ now - d.lastRewardTime < rewardInterval
  THEN [data |-> d, sent |-> FALSE]
  ELSE LET totalTime == IF Truthy(d.lastRewardTime) THEN now - d.lastRewardTime
                        ELSE now - d.startTime
       IN IF AboveThreshold(d.metrics.uptime, totalTime)
          THEN [data |-> [d EXCEPT !.lastRewardTime = now], sent |-> TRUE]
          ELSE [data |-> d, sent |-> FALSE]

(* distributeRewards() called at time now; sendFails: sendReward rejects.   *)
(* sent tells whether solanaService.sendReward was called.                  *)
distributeRewards(d, now, sendFails) ==
  IF Truthy(d.lastRewardTime) /\ now - d.lastRewardTime < rewardInterval
  THEN [data |-> d, sent |-> FALSE]
  ELSE LET totalTime == IF Truthy(d.lastRewardTime) THEN now - d.lastRewardTime
                        ELSE now - d.startTime
       IN IF AboveThreshold(d.metrics.uptime, totalTime)
          THEN [data |-> IF sendFails THEN d ELSE [d EXCEPT !.lastRewardTime = now],
                sent |-> TRUE]
          ELSE [data |-> d, sent |-> FALSE]

(* Math.ceil(d / 60000) for an interval of d ms, d >= 0 *)
ceilMinutes(d) == IF d = 0 THEN 0 ELSE Ceil(DivInt(d, msPerMinute))

(* init() of monitor.js: the n of the expression "*/n * * * *" of the       *)
(* metrics collection                                                       *)
intervalInMinutes(interval) == ceilMinutes(interval)

(* init() of index.js: the n of the status update's expression *)
statusUpdateInterval(interval) == ceilMinutes(interval)

(* scheduleMonitoringTask(s): the n of the expression of a task whose       *)
(* interval is a number                                                     *)
minutes(interval) == Max(1, ceilMinutes(interval))

(* no cron job scheduled yet *)
NoCadence == [interval |-> monitoringInterval, job |-> "none", minutes |-> 0]

(* The process before any termination signal:                              *)
(*   signals  SIGTERM / SIGINT signals handled                             *)
(*   waits    shutdown handlers awaiting their 500 ms timer                *)
(*   server   the HTTP server: "listening", "closing" (server.close was    *)
(*            called, connections are still open) or "closed"              *)
(*   force    armed 10000 ms timers whose callback calls process.exit(1)   *)
(*   exit     the exit status, null while the process runs                 *)
(*   issuing  the distributeRewards() calls awaiting sendReward, each with *)
(*            the now it read                                              *)
Serving ==
  [signals |-> 0, waits |-> 0, server |-> "listening", force |-> 0, exit |-> null,
   issuing |-> <<>>]

---------------------------------------------------------------------------
(* Inputs of a step *)

In(rnd, fails, unwind, throws) ==
  [rnd |-> rnd, fails |-> fails, unwind |-> unwind, throws |-> throws]

NoThrows == [i \in 1..(MaxQueue + 1) |-> FALSE]

(* scheduleReconnect(): the jitter *)
JitterInputs == {In(r, 0, 1, NoThrows) : r \in Rnd}

(* send(): the ws.send calls that throw and, when the stack is exhausted,  *)
(* how the error unwinds and the jitter of the reconnect                   *)
SendInputs ==
  {In(0, f, 1, NoThrows) : f \in 0..StackLimit}
    \cup {In(r, StackLimit + 1, u, NoThrows) : r \in Rnd, u \in 1..MaxUnwind}

(* handleOpen(): those of send() for authenticate, and the ws.send calls  *)
(* of the flush that throw                                                 *)
OpenInputs ==
  {[i EXCEPT !.throws = t] : i \in SendInputs, t \in [1..(MaxQueue + 1) -> BOOLEAN]}

(* The inputs a transport in the state of s can produce; a manager that is *)
(* not connected calls no ws.send outside the flush, and draws a random    *)
(* number only when checkConnection calls a connect() that throws.         *)
Feasible(s, in) ==
  IF s.isConnected
  THEN in \in SendInputs /\ (MustThrow(s) => in.fails = StackLimit + 1)
  ELSE /\ in \in JitterInputs
       /\ in.rnd = 0 \/ (urlInvalid /\ s.reconnectTimeout.state = "null")

(* An idle processor reads as a usage of 0 *)
CpuReadings == {0, 1}

(* Tasks, failing ticks, idle readings and failing writes are explored     *)
(* during the first ticks, while the history is short; idle readings and    *)
(* failing writes on a service without tasks and without errors.            *)
Early(now) == now <= FirstBoot + EarlyTicks * monitoringInterval
Wide == Early(clock) /\ Len(monitoringData.history) < ShortHistory
Explored(cpu, writeFails) == (Wide /\ monitoringData.monitoringTasks = <<>> /\ errorCount = 0) \/ (cpu = 1 /\ ~writeFails)

(* Failing disk and network domains are explored in the collections that  *)
(* find the history empty, on a service without tasks whose cpu reading,   *)
(* write and sends succeed.                                                *)
Domains ==
  IF Wide /\ monitoringData.history = <<>> /\ monitoringData.monitoringTasks = <<>>
  THEN DomainInputs
  ELSE {Healthy}

Degraded(io, cpu, fails, in) ==
  \/ io = Healthy
  \/ /\ cpu = 1
     /\ ~fails
     /\ in = In(0, 0, 1, NoThrows)

(* Beyond the first ticks the exploration follows a service without tasks *)
(* and without errors, whose file is up to date.                          *)
Settled ==
  /\ monitoringData.monitoringTasks = <<>>
  /\ errorCount = 0
  /\ ~startupPending
  /\ disk = <<dataToPersist(monitoringData)>>

(* The handlers of inbound messages that call send() *)
SendingHandlers == {"task", "requestMetrics"}

(* handleOpen() calls send() only for a registered user, and the flush    *)
(* calls ws.send once for each queued message (authenticate included, if  *)
(* its own ws.send threw)                                                  *)
FeasibleOpen(s, isReg, in) ==
  /\ isReg \/ [in EXCEPT !.throws = NoThrows] = In(0, 0, 1, NoThrows)
  /\ \A i \in 1..(MaxQueue + 1) :
       in.throws[i] => i <= Len(s.pendingMessages) + (IF isReg /\ in.fails > 0 THEN 1 ELSE 0)

Bounded(r, errors) ==
  /\ r.ok
  /\ Len(r.pendingMessages) <= MaxQueue
  /\ r.reconnectAttempts <= AttemptsBound
  /\ errors <= MaxErrors
  /\ r.reconnectAttempts > DeepAttempts => Len(r.pendingMessages) = 0 /\ errors = 0
  /\ errors > 0 => Len(r.pendingMessages) = 0

Operation(name, type, priority) ==
  [name |-> name, type |-> type, priority |-> priority]

(* The step: the variables take the values of the record a call returned. *)
(* (The record is bound once, by \E over a singleton.)                    *)
CommitCore(r, o, errors) ==
  \E x \in {r} :
    /\ Bounded(x, errors)
    /\ errorCount' = errors
    /\ ws' = x.ws
    /\ old' = x.old
    /\ isConnected' = x.isConnected
    /\ reconnectAttempts' = x.reconnectAttempts
    /\ reconnectTimeout' = x.reconnectTimeout
    /\ pingInterval' = x.pingInterval
    /\ pendingMessages' = x.pendingMessages
    /\ connectionStartTime' = x.connectionStartTime
    /\ trace' = x.trace
    /\ transmitted' = x.transmitted
    /\ ret' = x.ret
    /\ op' = o
    /\ noticed' = IF o.name = "handleMessage" /\ o.type = "serverShutdown" THEN TRUE
                  ELSE IF "scheduleReconnect" \in Range(x.trace) THEN FALSE
                  ELSE noticed

(* A step that leaves the cron jobs and the process alone *)
CommitWs(r, o, errors) == CommitCore(r, o, errors) /\ UNCHANGED <<schedVars, proc>>

(* A step of the connection manager that leaves the monitoring data alone *)
Commit(r, o, errors) == CommitWs(r, o, errors) /\ UNCHANGED monVars

---------------------------------------------------------------------------
(* The variables of websocket.js when the process has loaded the modules *)
Loaded ==
  [ws |-> "null", old |-> NoOld, isConnected |-> FALSE,
   reconnectAttempts |-> 0, reconnectTimeout |-> NoTimer, pingInterval |-> FALSE,
   pendingMessages |-> <<>>, connectionStartTime |-> "null",
   trace |-> <<>>, transmitted |-> <<>>, ret |-> "undefined", ok |-> TRUE]

(* monitoringData of a process whose monitor.init() has restored a full    *)
(* history and whose first collection is done; time is not followed in the *)
(* exploration of the connection manager, all its snapshots are alike.     *)
RestoredData ==
  LET m == collectMetrics(DefaultData(FirstBoot), FirstBoot, 1, Healthy)
  IN [DefaultData(FirstBoot) EXCEPT !.metrics = m,
                            !.history = [i \in 1..historyLimit |-> HistoryPoint(m)]]

(* State after the modules are loaded and monitor.init() has run, before   *)
(* websocketService.init()                                                 *)
Init ==
  /\ started = FALSE
  /\ urlInvalid \in BOOLEAN
  /\ ws = "null"
  /\ old = NoOld
  /\ isConnected = FALSE
  /\ reconnectAttempts = 0
  /\ reconnectTimeout = NoTimer
  /\ pingInterval = FALSE
  /\ pendingMessages = <<>>
  /\ connectionStartTime = "null"
  /\ registered \in BOOLEAN
  /\ errorCount = 0
  /\ op = Operation("load", "", "")
  /\ ret = "undefined"
  /\ trace = <<>>
  /\ transmitted = <<>>
  /\ noticed = FALSE
  /\ monitorStarted = TRUE
  /\ startupPending = FALSE
  /\ monitoringData = RestoredData
  /\ disk = <<dataToPersist(RestoredData)>>
  /\ clock = FirstBoot
  /\ cadence = NoCadence
  /\ minute = 0
  /\ jobs = <<>>
  /\ proc = Serving

---------------------------------------------------------------------------
(* Steps *)

(* init(): connect, register the handlers, start the 60 s health check *)
WsInit ==
  /\ monitorStarted
  /\ ~started
  /\ started' = TRUE
  /\ \E in \in JitterInputs :
       Commit(connect(Cur, urlInvalid, in), Operation("init", "", ""), errorCount)
  /\ UNCHANGED <<urlInvalid, registered>>

(* 'open' signal of the transport *)
TransportOpen ==
  /\ started
  /\ ws = "connecting"
  /\ \E in \in OpenInputs :
       LET s == [Cur EXCEPT !.ws = "open"]
       IN /\ FeasibleOpen(s, registered, in)
          /\ Commit(handleOpen(s, registered, urlInvalid, in),
                    Operation("handleOpen", "", ""), errorCount)
  /\ UNCHANGED <<started, urlInvalid, registered>>

(* 'error' signal of the current transport, which closes afterwards *)
TransportError ==
  /\ started
  /\ ws \in {"connecting", "open", "failing"}
  /\ Commit(handleError([Cur EXCEPT !.ws = "closing"]),
            Operation("handleError", "current", ""), errorCount)
  /\ UNCHANGED <<started, urlInvalid, registered>>

(* 'close' signal of the current transport *)
TransportClose ==
  /\ started
  /\ ws \in {"open", "closing"}
  /\ \E in \in JitterInputs :
       Commit(handleClose([Cur EXCEPT !.ws = "closed"], in),
              Operation("handleClose", "current", ""), errorCount)
  /\ UNCHANGED <<started, urlInvalid, registered>>

(* 'error' signal of a transport that connect() has replaced *)
OldTransportError ==
  /\ started
  /\ old.failing > 0
  /\ Commit(handleError([Cur EXCEPT !.old = [@ EXCEPT !.failing = @ - 1,
                                                       !.closing = @ + 1]]),
            Operation("handleError", "replaced", ""), errorCount)
  /\ UNCHANGED <<started, urlInvalid, registered>>

(* 'close' signal of a transport that connect() has replaced *)
OldTransportClose ==
  /\ started
  /\ old.closing > 0
  /\ \E in \in JitterInputs :
       Commit(handleClose([Cur EXCEPT !.old.closing = @ - 1], in),
              Operation("handleClose", "replaced", ""), errorCount)
  /\ UNCHANGED <<started, urlInvalid, registered>>

(* 'message' signal of the transport *)
TransportMessage ==
  /\ started
  /\ ws = "open"
  /\ \E type \in InboundTypes, in \in SendInputs \cup JitterInputs :
       /\ Feasible(Cur, in)
       /\ type \in SendingHandlers \/ in = In(0, 0, 1, NoThrows)
       /\ Commit(handleMessage(Cur, type, registered, urlInvalid, in),
                 Operation("handleMessage", type, ""), errorCount)
  /\ UNCHANGED <<started, urlInvalid, registered>>

(* A cooldown callback that does not reset reconnectAttempts *)
ReconnectFireKeepsCount ==
  /\ started
  /\ reconnectTimeout.state = "pending"
  /\ \E in \in JitterInputs :
       LET s == [Cur EXCEPT !.reconnectTimeout = [@ EXCEPT !.state = "fired", !.delay = 0]]
       IN Commit(connect(s, urlInvalid, in),
                 Operation("reconnectTimer", reconnectTimeout.kind, ""), errorCount)
  /\ UNCHANGED <<started, urlInvalid, registered>>

(* The callback of the timer held in reconnectTimeout *)
ReconnectFire ==
  /\ started
  /\ reconnectTimeout.state = "pending"
  /\ \E in \in JitterInputs :
       LET s == [Cur EXCEPT !.reconnectTimeout = [@ EXCEPT !.state = "fired", !.delay = 0],
                            !.reconnectAttempts =
                               IF reconnectTimeout.kind = "cooldown" THEN 0 ELSE @]
       IN Commit(connect(s, urlInvalid, in),
                 Operation("reconnectTimer", reconnectTimeout.kind, ""), errorCount)
  /\ UNCHANGED <<started, urlInvalid, registered>>

(* The callback of the interval held in pingInterval. (An interval whose   *)
(* handle handleOpen overwrote keeps running the same callback; what it    *)
(* does when connected is what HealthCheck does.)                          *)
PingTick ==
  /\ started
  /\ pingInterval
  /\ \E in \in SendInputs \cup JitterInputs :
       /\ Feasible(Cur, in)
       /\ Commit(IF isConnected THEN sendPing(Cur, urlInvalid, in) ELSE Cur,
                 Operation("pingTimer", "ping", "low"), errorCount)
  /\ UNCHANGED <<started, urlInvalid, registered>>

(* The callback of the health-check interval of init(), and the exported   *)
(* checkConnection                                                         *)
HealthCheck ==
  /\ started
  /\ \E in \in SendInputs \cup JitterInputs :
       /\ Feasible(Cur, in)
       /\ Commit(checkConnection(Cur, urlInvalid, in.fails, in),
                 Operation("checkConnection", "ping", "low"), errorCount)
  /\ UNCHANGED <<started, urlInvalid, registered>>

(* The exported send(type, data, priority) *)
ExportedSend ==
  /\ started
  /\ \E type \in AppTypes, priority \in Priorities, in \in SendInputs \cup JitterInputs :
       /\ Feasible(Cur, in)
       /\ Commit(send(Cur, Message(type, priority), urlInvalid, in.fails, in),
                 Operation("send", type, priority), errorCount)
  /\ UNCHANGED <<started, urlInvalid, registered>>

(* monitor.js: a collection that succeeded, followed by processMetrics and *)
(* the reset of the error counter                                          *)
CronTick(now) ==
  /\ started
  /\ \E in \in SendInputs \cup JitterInputs, cpu \in CpuReadings, writeFails \in BOOLEAN,
        io \in Domains :
       LET d == processMetrics(monitoringData, collectMetrics(monitoringData, now, cpu, io))
           s == [Cur EXCEPT !.trace = Warnings(io)]
       IN /\ Feasible(Cur, in)
          /\ Explored(cpu, writeFails)
          /\ Degraded(io, cpu, writeFails, in)
          /\ CommitWs(IF isSocketConnected(s)
                      THEN sendMetrics(s, registered, urlInvalid, in)
                      ELSE s,
                      Operation("processMetrics", "metrics", "normal"), 0)
          /\ monitoringData' = d
          /\ disk' = persistData(d, disk, writeFails)
          /\ clock' = now
  /\ UNCHANGED <<started, urlInvalid, registered, monitorStarted, startupPending>>

(* The tick, where time is not followed *)
MetricsCollected == CronTick(clock)

(* handleMetricsError(error), with errors.count already incremented to     *)
(* errors: connect() when the count has reached the threshold and the      *)
(* socket is not connected                                                 *)
handleMetricsError(s, errors, invalid, in) ==
  IF errors >= recoveryThreshold /\ ~isSocketConnected(s)
  THEN connect(s, invalid, in)
  ELSE s

(* monitor.js: the metrics tick whose collection throws *)
MetricsFailed ==
  /\ started
  /\ \E in \in JitterInputs :
       Commit(handleMetricsError(Cur, errorCount + 1, urlInvalid, in),
              Operation("handleMetricsError", "", ""), errorCount + 1)
  /\ UNCHANGED <<started, urlInvalid, registered>>

(* userService.registerUser succeeded *)
RegisterUser ==
  /\ started
  /\ ~registered
  /\ registered' = TRUE
  /\ Commit(Cur, Operation("registerUser", "", ""), errorCount)
  /\ UNCHANGED <<started, urlInvalid>>

(* 5000 ms have passed since connect() recorded connectionStartTime *)
GraceElapses ==
  /\ started
  /\ connectionStartTime = "recent"
  /\ Commit([Cur EXCEPT !.connectionStartTime = "old"], Operation("time", "", ""),
            errorCount)
  /\ UNCHANGED <<started, urlInvalid, registered>>

---------------------------------------------------------------------------
(* Steps of the monitoring service *)

(* monitor.init(): load the persisted data, schedule the ticks, start the  *)
(* first collection                                                        *)
MonitorInit ==
  /\ ~monitorStarted
  /\ monitorStarted' = TRUE
  /\ startupPending' = TRUE
  /\ monitoringData' = loadPersistedData(monitoringData, disk)
  /\ CommitWs(Cur, Operation("monitorInit", "", ""), errorCount)
  /\ UNCHANGED <<started, urlInvalid, registered, disk, clock>>

(* The first collection of monitor.init() resolves: processMetrics, or    *)
(* handleMetricsError when it throws                                       *)
StartupCollection ==
  /\ started
  /\ startupPending
  /\ startupPending' = FALSE
  /\ \E in \in SendInputs \cup JitterInputs, cpu \in CpuReadings, ok \in BOOLEAN,
        io \in Domains :
       /\ Feasible(Cur, in)
       /\ Explored(cpu, ~ok)
       /\ Degraded(io, cpu, ~ok, in)
       /\ monitoringData' =
            IF ok THEN processMetrics(monitoringData,
                                      collectMetrics(monitoringData, clock, cpu, io))
            ELSE monitoringData
       /\ CommitWs(IF ~ok THEN handleMetricsError(Cur, errorCount + 1, urlInvalid, in)
                   ELSE IF isSocketConnected(Cur)
                   THEN sendMetrics([Cur EXCEPT !.trace = Warnings(io)],
                                    registered, urlInvalid, in)
                   ELSE [Cur EXCEPT !.trace = Warnings(io)],
                   Operation("startupCollection", IF ok THEN "metrics" ELSE "failed",
                             "normal"),
                   IF ok THEN errorCount ELSE errorCount + 1)
  /\ UNCHANGED <<started, urlInvalid, registered, monitorStarted, disk, clock>>

(* The cron tick of the metrics collection, one interval after the last *)
MetricsTick ==
  /\ clock + monitoringInterval <= MaxClock
  /\ Early(clock + monitoringInterval) \/ Settled
  /\ CronTick(clock + monitoringInterval)

(* The tick fails, on a service without tasks: handleMetricsError *)
MetricsTickFails ==
  /\ Wide
  /\ errorCount < EarlyErrors
  /\ monitoringData.monitoringTasks = <<>>
  /\ MetricsFailed

(* getMetrics(): collects when monitoringData.metrics.cpu.usage is falsy;  *)
(* a collection that throws is logged only                                  *)
GetMetrics ==
  /\ started
  /\ ~Truthy(monitoringData.metrics.cpu)
  /\ Wide
  /\ \E in \in SendInputs \cup JitterInputs, cpu \in CpuReadings, ok \in BOOLEAN,
        io \in Domains :
       /\ Feasible(Cur, in)
       /\ ok \/ (cpu = 1 /\ in = In(0, 0, 1, NoThrows) /\ monitoringData.history = <<>>)
       /\ Degraded(io, cpu, ~ok, in)
       /\ monitoringData' =
            IF ok THEN processMetrics(monitoringData,
                                      collectMetrics(monitoringData, clock, cpu, io))
            ELSE monitoringData
       /\ CommitWs(IF ~ok THEN Cur
                   ELSE IF isSocketConnected(Cur)
                   THEN sendMetrics([Cur EXCEPT !.trace = Warnings(io)],
                                    registered, urlInvalid, in)
                   ELSE [Cur EXCEPT !.trace = Warnings(io)],
                   Operation("getMetrics", IF ok THEN "metrics" ELSE "failed", "normal"),
                   errorCount)
  /\ UNCHANGED <<started, urlInvalid, registered, monitorStarted, startupPending,
                 disk, clock>>

(* addMonitoringTask(task), on a service without errors: push, schedule,   *)
(* persist                                                                 *)
AddTask ==
  /\ started
  /\ Wide
  /\ Len(monitoringData.monitoringTasks) < MaxTasks
  /\ errorCount = 0
  /\ \E id \in TaskIds, writeFails \in BOOLEAN :
       LET d == addMonitoringTask(monitoringData, Task(id, TaskInterval))
       IN /\ monitoringData' = d
          /\ disk' = persistData(d, disk, writeFails)
  /\ CommitWs(Cur, Operation("addMonitoringTask", "", ""), errorCount)
  /\ UNCHANGED <<started, urlInvalid, registered, monitorStarted, startupPending, clock>>

(* removeMonitoringTask(taskId) of a task that is there: splice, persist *)
RemoveTask ==
  /\ started
  /\ \E id \in TaskIds, writeFails \in BOOLEAN :
       LET d == removeMonitoringTask(monitoringData, id)
       IN /\ findIndex(monitoringData.monitoringTasks, id) # 0
          /\ Explored(1, writeFails)
          /\ monitoringData' = d
          /\ disk' = persistData(d, disk, writeFails)
  /\ CommitWs(Cur, Operation("removeMonitoringTask", "", ""), errorCount)
  /\ UNCHANGED <<started, urlInvalid, registered, monitorStarted, startupPending, clock>>

(* The cron tick of a monitoring task whose check succeeds: report the     *)
(* result with send(), record the run, persist                             *)
TaskRun ==
  /\ started
  /\ Wide
  /\ \E i \in 1..Len(monitoringData.monitoringTasks), writeFails \in BOOLEAN,
        in \in SendInputs \cup JitterInputs :
       LET d == [monitoringData EXCEPT !.monitoringTasks[i].lastRunTime = clock]
       IN /\ Feasible(Cur, in)
          /\ monitoringData' = d
          /\ disk' = persistData(d, disk, writeFails)
          /\ CommitWs(send(Cur, Message("taskResult", "normal"), urlInvalid, in.fails, in),
                      Operation("taskRun", "taskResult", "normal"), errorCount)
  /\ UNCHANGED <<started, urlInvalid, registered, monitorStarted, startupPending, clock>>

(* persistData() from the 30-minute cron job or from SIGTERM / SIGINT *)
PersistTimer ==
  /\ monitorStarted
  /\ \E writeFails \in BOOLEAN :
       /\ Explored(1, writeFails)
       /\ disk' = persistData(monitoringData, disk, writeFails)
  /\ CommitWs(Cur, Operation("persistData", "", ""), errorCount)
  /\ UNCHANGED <<started, urlInvalid, registered, monitorStarted, startupPending,
                 monitoringData, clock>>

(* distributeRewards() at time now *)
RewardCheck(now) ==
  /\ monitorStarted
  /\ \E sendFails \in BOOLEAN :
     \E r \in {distributeRewards(monitoringData, now, sendFails)} :
       /\ r.sent \/ ~sendFails
       /\ monitoringData' = r.data
       /\ CommitWs([Cur EXCEPT !.trace = IF r.sent THEN <<"sendReward">> ELSE <<>>],
                   Operation("distributeRewards",
                             IF ~r.sent THEN "" ELSE IF sendFails THEN "rejected" ELSE "sent",
                             ""),
                   errorCount)
  /\ clock' = now
  /\ UNCHANGED <<started, urlInvalid, registered, monitorStarted, startupPending, disk>>

(* distributeRewards() after a metrics collection of the first ticks *)
RewardTick ==
  /\ Wide
  /\ errorCount = 0
  /\ op.name = "processMetrics"
  /\ RewardCheck(clock)

(* The process ends and, one interval later, a new one loads the modules:  *)
(* every variable is as the modules create it, the file is as it was left. *)
Restart ==
  /\ monitorStarted
  /\ Wide \/ Len(monitoringData.history) = historyLimit
  /\ clock + monitoringInterval <= MaxClock
  /\ clock' = clock + monitoringInterval
  /\ started' = FALSE
  /\ monitorStarted' = FALSE
  /\ startupPending' = FALSE
  /\ monitoringData' = DefaultData(clock')
  /\ CommitWs(Loaded, Operation("load", "", ""), 0)
  /\ UNCHANGED <<urlInvalid, registered, disk>>

Next ==
  \/ WsInit
  \/ TransportOpen
  \/ TransportError
  \/ TransportClose
  \/ OldTransportError
  \/ OldTransportClose
  \/ TransportMessage
  \/ ReconnectFire
  \/ PingTick
  \/ HealthCheck
  \/ ExportedSend
  \/ MetricsCollected
  \/ MetricsFailed
  \/ RegisterUser
  \/ GraceElapses

Spec == Init /\ [][Next]_vars

(* The monitoring service from the first boot on, over a connection        *)
(* manager whose transport signals and timers stay out.                    *)
SeedFile == [monitoringTasks |-> <<Task(1, TaskInterval)>>]

(* A file left by a process whose clock was ahead of the one of this boot *)
LaterFile == dataToPersist(DefaultData(FirstBoot + monitoringInterval))

MonInit ==
  /\ started = FALSE
  /\ urlInvalid = FALSE
  /\ registered = FALSE
  /\ errorCount = 0
  /\ op = Operation("load", "", "")
  /\ ws = Loaded.ws
  /\ old = Loaded.old
  /\ isConnected = Loaded.isConnected
  /\ reconnectAttempts = Loaded.reconnectAttempts
  /\ reconnectTimeout = Loaded.reconnectTimeout
  /\ pingInterval = Loaded.pingInterval
  /\ pendingMessages = Loaded.pendingMessages
  /\ connectionStartTime = Loaded.connectionStartTime
  /\ ret = Loaded.ret
  /\ trace = Loaded.trace
  /\ transmitted = Loaded.transmitted
  /\ noticed = FALSE
  /\ monitorStarted = FALSE
  /\ startupPending = FALSE
  /\ monitoringData = DefaultData(FirstBoot)
  /\ disk \in {<<>>, <<SeedFile>>, <<LaterFile>>}
  /\ clock = FirstBoot
  /\ cadence = NoCadence
  /\ minute = 0
  /\ jobs = <<>>
  /\ proc = Serving

MonNext ==
  \/ MonitorInit
  \/ WsInit
  \/ StartupCollection
  \/ MetricsTick
  \/ MetricsTickFails
  \/ GetMetrics
  \/ AddTask
  \/ RemoveTask
  \/ TaskRun
  \/ PersistTimer
  \/ RewardTick
  \/ Restart

MonSpec == MonInit /\ [][MonNext]_vars

---------------------------------------------------------------------------
(* distributeRewards applied to monitoring data drawn from bounded sets:   *)
(* a service started at FirstBoot, rewarded last at RewardedAt or never,   *)
(* whose last snapshot shows a client uptime from Uptimes, evaluated at    *)
(* the times of Nows in increasing order.                                  *)
RewardedAt == 2000

Uptimes ==
  {null, 0, 899, 900, 901, 1016, 1017, 1018, 1130,
   77759999, 77760000, 77760001, 86400000, 86401000}

Elapsed == {1000, 1130, rewardInterval - 1, rewardInterval, rewardInterval + 1}

Nows == {FirstBoot + t : t \in Elapsed} \cup {RewardedAt + t : t \in Elapsed}

RewardInit ==
  /\ started = FALSE
  /\ urlInvalid = FALSE
  /\ registered = FALSE
  /\ errorCount = 0
  /\ op = Operation("load", "", "")
  /\ ws = Loaded.ws
  /\ old = Loaded.old
  /\ isConnected = Loaded.isConnected
  /\ reconnectAttempts = Loaded.reconnectAttempts
  /\ reconnectTimeout = Loaded.reconnectTimeout
  /\ pingInterval = Loaded.pingInterval
  /\ pendingMessages = Loaded.pendingMessages
  /\ connectionStartTime = Loaded.connectionStartTime
  /\ ret = Loaded.ret
  /\ trace = Loaded.trace
  /\ transmitted = Loaded.transmitted
  /\ noticed = FALSE
  /\ monitorStarted = TRUE
  /\ startupPending = FALSE
  /\ \E u \in Uptimes, l \in {null, RewardedAt} :
       monitoringData =
         [DefaultData(FirstBoot) EXCEPT
            !.lastRewardTime = l,
            !.metrics = IF u = null THEN NoMetrics
                        ELSE [collectMetrics(DefaultData(FirstBoot), FirstBoot + u, 1, Healthy)
                                EXCEPT !.uptime = u]]
  /\ disk = <<>>
  /\ clock = Max(Max(monitoringData.metrics.timestamp, monitoringData.lastRewardTime),
                 FirstBoot)
  /\ cadence = NoCadence
  /\ minute = 0
  /\ jobs = <<>>
  /\ proc = Serving

Evaluate == \E now \in Nows : now > clock /\ RewardCheck(now)

RewardNext == Evaluate

RewardSpec == RewardInit /\ [][RewardNext]_vars

(* Fair firing of the reconnect timer and fair delivery of the signals of  *)
(* the transport ws refers to: a connection attempt ends with 'open' or    *)
(* 'error', an 'error' is followed by 'close', a terminated transport      *)
(* closes. (Nothing is assumed of the transports that connect() replaced,  *)
(* nor of the health check.)                                               *)
AttemptEnds == ws = "connecting" /\ (TransportOpen \/ TransportError)
ErrorDelivered == ws = "failing" /\ TransportError
CloseDelivered == ws = "closing" /\ TransportClose

Fairness ==
  /\ WF_vars(ReconnectFire)
  /\ WF_vars(AttemptEnds)
  /\ WF_vars(ErrorDelivered)
  /\ WF_vars(CloseDelivered)

FairSpec == Spec /\ Fairness

TypeOK ==
  /\ ws \in {"null", "connecting", "open", "failing", "closing", "closed"}
  /\ isConnected \in BOOLEAN
  /\ reconnectAttempts \in 0..AttemptsBound
  /\ Len(pendingMessages) <= MaxQueue

---------------------------------------------------------------------------
(* Properties *)

Scheduled == "scheduleReconnect" \in Range(trace)
SendThrew == "throw" \in Range(trace)

(* C1: reconnectAttempts never decreases from one state to the next, except *)
(* in the step that handles the transport's open signal and in the step in  *)
(* which the cooldown retry fires; each of the two sets it to 0, and it is  *)
(* 0 after the step unless the step went on to schedule a reconnect.        *)
C1_AttemptsOnlyReset ==
  [][/\ reconnectAttempts' < reconnectAttempts =>
          \/ op'.name = "handleOpen"
          \/ op'.name = "reconnectTimer" /\ op'.type = "cooldown"
     /\ (\/ op'.name = "handleOpen"
         \/ op'.name = "reconnectTimer" /\ op'.type = "cooldown")
          /\ ~Scheduled' => reconnectAttempts' = 0]_vars

(* The cooldown retry has fired after the counter went beyond the maximum. *)
C1_Witness ==
  /\ op.name = "reconnectTimer"
  /\ op.type = "cooldown"
  /\ reconnectAttempts = 0
  /\ reconnectTimeout.state = "fired"

(* C2: a reconnect that scheduleReconnect schedules with attempt number     *)
(* n <= maxReconnectAttempts has a delay d of at most 60000, and when       *)
(* baseDelay * 2^(n-1) is below the cap of 30000,                           *)
(* baseDelay * 2^(n-1) <= d <= 1.3 * baseDelay * 2^(n-1).                   *)
C2_BackoffDelayBounds ==
  /\ reconnectTimeout.kind = "backoff" => reconnectTimeout.delay <= delayCeiling
  /\ Scheduled /\ reconnectAttempts <= maxReconnectAttempts =>
       LET n == reconnectAttempts
           d == reconnectTimeout.delay
           uncapped == baseDelay * Pow2(n - 1)
       IN /\ reconnectTimeout.state = "pending"
          /\ reconnectTimeout.kind = "backoff"
          /\ uncapped < maxDelayCap => uncapped <= d /\ 10 * d <= 13 * uncapped

(* The third attempt, scheduled with jitter. *)
C2_Witness ==
  /\ Scheduled
  /\ reconnectAttempts = 3
  /\ reconnectTimeout.state = "pending"
  /\ reconnectTimeout.delay > baseDelay * 4

IsPrefix(a, b) == Len(a) <= Len(b) /\ SubSeq(b, 1, Len(a)) = a

C5_SendFailureDisconnects ==
  op.name = "send" /\ SendThrew =>
    ~isConnected /\ Scheduled /\ reconnectTimeout.state = "pending"

(* C6 as stated: when the ping of the health check fails to send, the      *)
(* transport is terminated, the manager is Disconnected and                *)
(* scheduleReconnect has been called.                                      *)
C6_PingFailureForcesReconnect ==
  op.name = "checkConnection" /\ SendThrew =>
    ~isConnected /\ "terminate" \in Range(trace) /\ Scheduled

RetryInFlight == reconnectTimeout.state = "fired" /\ reconnectTimeout.kind = "cooldown"
RetryFailed == "clearTimeout(cooldown, fired)" \in Range(trace)
CooldownTimer == [state |-> "pending", kind |-> "cooldown", delay |-> cooldownDelay]

(* C7 as stated: when scheduleReconnect raises reconnectAttempts above     *)
(* maxReconnectAttempts it schedules no backoff attempt but one retry      *)
(* after 300000 ms; reconnectAttempts is 0 when the retry calls connect(); *)
(* and the reconnect scheduled when the retry has failed is attempt 1.     *)
C7_FreshSequenceAfterCooldown ==
  /\ Scheduled /\ reconnectAttempts > maxReconnectAttempts =>
       reconnectTimeout = CooldownTimer
  /\ op.name = "reconnectTimer" /\ op.type = "cooldown" /\ ~Scheduled =>
       reconnectAttempts = 0
  /\ RetryFailed =>
       reconnectAttempts = 1 /\ reconnectTimeout.kind = "backoff"

(* C7: when scheduleReconnect raises reconnectAttempts above               *)
(* maxReconnectAttempts it schedules no backoff attempt but one retry      *)
(* after 300000 ms; reconnectAttempts is 0 when the retry calls connect(); *)
(* and while the retry is in flight the counter changes only by the 2 that *)
(* an error signal handled within 5000 ms of connect() adds, so that the   *)
(* reconnect scheduled when the retry has failed is a backoff attempt with *)
(* number 1 plus 2 for each such error signal.                             *)
C7_CooldownRetry ==
  [][/\ Scheduled' /\ reconnectAttempts' > maxReconnectAttempts =>
          reconnectTimeout' = CooldownTimer
     /\ op'.name = "reconnectTimer" /\ op'.type = "cooldown" =>
          /\ "connect" \in Range(trace')
          /\ reconnectAttempts' = IF Scheduled' THEN 1 ELSE 0
     /\ RetryInFlight /\ op'.name # "handleOpen" =>
          \/ reconnectAttempts' = reconnectAttempts /\ ~Scheduled'
          \/ /\ op'.name = "handleError"
             /\ connectionStartTime = "recent"
             /\ reconnectAttempts' = reconnectAttempts + 2
          \/ /\ Scheduled' /\ RetryFailed'
             /\ reconnectAttempts' = reconnectAttempts + 1
             /\ reconnectTimeout'.state = "pending"
             /\ reconnectTimeout'.kind = "backoff"]_vars

(* The retry after the cooldown failed at once: its error signal added 2   *)
(* and its close signal scheduled attempt 3.                               *)
C7_Witness ==
  /\ op.name = "handleClose"
  /\ RetryFailed
  /\ reconnectAttempts = 3
  /\ reconnectTimeout.kind = "backoff"
  /\ reconnectTimeout.delay >= baseDelay * 4

Disconnected == started /\ ~isConnected
ConnectCalled == "connect" \in Range(trace)
TimerPending == reconnectTimeout.state = "pending"
(* A connection attempt is in flight until its transport has delivered the *)
(* signals that end it.                                                    *)
AttemptInFlight == ws \in {"connecting", "failing", "closing"}
HealthCheckConnects ==
  "connect" \in Range(checkConnection(Cur, urlInvalid, 0, In(0, 0, 1, NoThrows)).trace)
(* A timer or a signal that is due has no successor within the bounds of   *)
(* the model: the exploration ends here.                                   *)
OutOfBounds ==
  \/ TimerPending /\ ~ENABLED ReconnectFire
  \/ ws = "connecting" /\ ~ENABLED TransportOpen
  \/ ws \in {"connecting", "failing"} /\ ~ENABLED TransportError
  \/ ws = "closing" /\ ~ENABLED TransportClose

(* C8: the manager never gives up. While it is Disconnected, a reconnect   *)
(* timer is pending, or a connection attempt is in flight, or the health   *)
(* check starts one; and with the reconnect timer firing and the signals   *)
(* of the transports delivered fairly, whenever it is Disconnected a       *)
(* connect() is eventually called (or the attempt in flight succeeds).     *)
C8_NeverGivesUp ==
  /\ [](Disconnected => TimerPending \/ AttemptInFlight \/ HealthCheckConnects)
  /\ [](Disconnected => <>(ConnectCalled \/ isConnected \/ OutOfBounds))

(* The cooldown retry has called connect() while the manager was           *)
(* Disconnected after more than maxReconnectAttempts attempts.             *)
C8_Witness ==
  /\ Disconnected
  /\ op.name = "reconnectTimer"
  /\ op.type = "cooldown"
  /\ ConnectCalled
  /\ ws = "connecting"

(* C9: every message held in pendingMessages has priority "high". *)
C9_QueueHoldsHighOnly ==
  \A i \in 1..Len(pendingMessages) : pendingMessages[i].priority = "high"

(* A metrics message of normal priority whose transmission failed, while a *)
(* message is queued.                                                      *)
C9_Witness ==
  /\ op.priority = "normal"
  /\ SendThrew
  /\ Len(pendingMessages) > 0

(* C10: a send() called while isConnected is false transmits nothing,       *)
(* returns false, and appends the message to pendingMessages exactly once   *)
(* if its priority is "high", leaving pendingMessages unchanged otherwise.  *)
C10_SendWhileDisconnected ==
  [][op'.name = "send" /\ ~isConnected =>
       /\ transmitted' = <<>>
       /\ ret' = "false"
       /\ pendingMessages' =
            IF op'.priority = "high"
            THEN Append(pendingMessages, Message(op'.type, "high"))
            ELSE pendingMessages]_vars

(* A second high-priority message has been queued by a send() that found   *)
(* the manager disconnected.                                               *)
C10_Witness ==
  /\ op.name = "send"
  /\ op.priority = "high"
  /\ ~isConnected
  /\ ~SendThrew
  /\ ret = "false"
  /\ Len(pendingMessages) = 2
  /\ transmitted = <<>>
  /\ noticed = FALSE

---------------------------------------------------------------------------
(* The flush of handleOpen, read from the trace of the step *)

Flushed == "flush" \in Range(trace)
FlushAt == CHOOSE i \in 1..Len(trace) : trace[i] = "flush"
FlushThrows == Len(trace) - FlushAt
AuthThrew == \E i \in 1..(FlushAt - 1) : trace[i] = "throw"

(* The elements q[i], i >= from, with keep[i], in the order of q *)
RECURSIVE Picked(_, _, _)
Picked(q, keep, from) ==
  IF from > Len(q) THEN <<>>
  ELSE (IF keep[from] THEN <<q[from]>> ELSE <<>>) \o Picked(q, keep, from + 1)

Suffix(a, n) == SubSeq(a, Len(a) - n + 1, Len(a))

(* C11: in the flush of handleOpen the queued messages (with authenticate   *)
(* last, if its own ws.send threw) are passed to ws.send oldest first; the  *)
(* messages whose ws.send does not throw are no longer queued, and are the  *)
(* last ones transmitted, in queue order, if the transport is open; the     *)
(* high-priority messages whose ws.send throws are exactly the queue after  *)
(* the flush, in their former relative order.                               *)
C11_FlushRequeuesFailedHigh ==
  [][op'.name = "handleOpen" /\ Flushed' =>
       LET q == pendingMessages \o
                  (IF AuthThrew' THEN <<Message("authenticate", "high")>> ELSE <<>>)
       IN \E threw \in [1..Len(q) -> BOOLEAN] :
            LET sent == Picked(q, [i \in 1..Len(q) |-> ~threw[i]], 1)
                back == Picked(q, [i \in 1..Len(q) |->
                                     threw[i] /\ q[i].priority = "high"], 1)
            IN /\ Cardinality({i \in 1..Len(q) : threw[i]}) = FlushThrows'
               /\ pendingMessages' = back
               /\ ws' = "open" =>
                    /\ Len(transmitted') \in {Len(sent), Len(sent) + 1}
                    /\ Suffix(transmitted', Len(sent)) = sent]_vars

(* A flush of three messages: the first and the last ws.send threw and the *)
(* two messages are queued again in their former order, the second message *)
(* went out.                                                                *)
C11_Witness ==
  /\ op.name = "handleOpen"
  /\ Flushed
  /\ FlushThrows = 2
  /\ Len(pendingMessages) = 2
  /\ pendingMessages[1] # pendingMessages[2]
  /\ ws = "open"
  /\ Len(transmitted) = 2

---------------------------------------------------------------------------
(* Transports that are connecting or open: the one ws refers to and the    *)
(* replaced ones                                                           *)
Live == (IF ws \in {"connecting", "open"} THEN 1 ELSE 0) + old.live

---------------------------------------------------------------------------
(* C13: the length of pendingMessages stays below a fixed bound in every   *)
(* reachable state, also while the manager is disconnected and high-       *)
(* priority messages keep being passed to send(). The bound is MaxQueue,   *)
(* the largest length explored: send() pushes without looking at the       *)
(* length, so whatever value the bound takes, the queue reaches it.        *)
C13_QueueBelowBound == ~isConnected => Len(pendingMessages) < MaxQueue

---------------------------------------------------------------------------
(* The step ran processMetrics: the cron tick, the first collection of     *)
(* monitor.init() when it succeeded, or getMetrics()                       *)
Processed ==
  /\ op.name \in {"processMetrics", "startupCollection", "getMetrics"}
  /\ op.type = "metrics"

(* The step ran loadPersistedData on an existing file *)
LoadedFile == op.name = "monitorInit" /\ disk # <<>>

(* C14: in every reachable state the history holds at most 100 points,     *)
(* whatever number of snapshots the cron tick, the first collection and    *)
(* getMetrics() have processed and whichever file written by persistData() *)
(* was loaded; the same holds of the history in the file.                  *)
C14_HistoryAtMostLimit ==
  /\ Len(monitoringData.history) <= historyLimit
  /\ disk # <<>> => Len(Field(disk[1], "history", <<>>)) <= historyLimit

(* A process has loaded a file holding a full history, 101 ticks after the *)
(* first boot.                                                             *)
C14_Witness ==
  /\ LoadedFile
  /\ Len(monitoringData.history) = historyLimit
  /\ clock >= FirstBoot + (historyLimit + 1) * monitoringInterval

(* C15: a step that runs processMetrics on a history of 100 points leaves  *)
(* the old history without its first point, followed by the point of the   *)
(* new snapshot; on a shorter history it leaves the old history followed   *)
(* by the new point.                                                       *)
C15_ProcessEvictsOldest ==
  [][Processed' =>
       LET h == monitoringData.history
           p == HistoryPoint(monitoringData'.metrics)
       IN monitoringData'.history =
            IF Len(h) = historyLimit THEN Tail(h) \o <<p>> ELSE h \o <<p>>]_vars

(* A snapshot was processed on a full history: the oldest point left is    *)
(* younger than the first boot and the newest is the one of this snapshot. *)
C15_Witness ==
  /\ Processed
  /\ Len(monitoringData.history) = historyLimit
  /\ monitoringData.history[1] > FirstBoot + monitoringInterval
  /\ monitoringData.history[historyLimit] = clock

---------------------------------------------------------------------------
(* The cron expressions computed for intervals drawn from a bounded set:   *)
(* the whole minutes up to MaxMinutes, one ms less and one ms more.         *)
MaxMinutes == 11

Intervals ==
  {d \in UNION {{n * msPerMinute - 1, n * msPerMinute, n * msPerMinute + 1} :
                  n \in 0..MaxMinutes} : d >= 0}

CadenceInit ==
  /\ started = FALSE
  /\ urlInvalid = FALSE
  /\ registered = FALSE
  /\ errorCount = 0
  /\ op = Operation("load", "", "")
  /\ ws = Loaded.ws
  /\ old = Loaded.old
  /\ isConnected = Loaded.isConnected
  /\ reconnectAttempts = Loaded.reconnectAttempts
  /\ reconnectTimeout = Loaded.reconnectTimeout
  /\ pingInterval = Loaded.pingInterval
  /\ pendingMessages = Loaded.pendingMessages
  /\ connectionStartTime = Loaded.connectionStartTime
  /\ ret = Loaded.ret
  /\ trace = Loaded.trace
  /\ transmitted = Loaded.transmitted
  /\ noticed = FALSE
  /\ monitorStarted = FALSE
  /\ startupPending = FALSE
  /\ monitoringData = DefaultData(FirstBoot)
  /\ disk = <<>>
  /\ clock = FirstBoot
  /\ \E d \in Intervals : cadence = [NoCadence EXCEPT !.interval = d]
  /\ minute = 0
  /\ jobs = <<>>
  /\ proc = Serving

(* cron.schedule of a job with the expression "*/n * * * *" *)
CronJob(job, n) == [cadence EXCEPT !.job = job, !.minutes = n]

(* monitor.init() with config.monitoring.interval = cadence.interval *)
ScheduleMetrics ==
  /\ cadence' = CronJob("metrics", intervalInMinutes(cadence.interval))
  /\ UNCHANGED <<wsVars, monVars, minute, jobs, proc>>

(* init() of index.js with config.user.statusUpdateInterval = cadence.interval *)
ScheduleStatus ==
  /\ cadence' = CronJob("status", statusUpdateInterval(cadence.interval))
  /\ UNCHANGED <<wsVars, monVars, minute, jobs, proc>>

(* scheduleMonitoringTask(task) with task.interval = cadence.interval *)
ScheduleTask ==
  /\ cadence' = CronJob("task", minutes(cadence.interval))
  /\ UNCHANGED <<wsVars, monVars, minute, jobs, proc>>

CadenceNext ==
  \/ ScheduleMetrics
  \/ ScheduleStatus
  \/ ScheduleTask

CadenceSpec == CadenceInit /\ [][CadenceNext]_vars

---------------------------------------------------------------------------
(* Reward evaluation *)

(* the interval gate of an evaluation of d at time now *)
GateOpen(d, now) ==
  d.lastRewardTime = null \/ now - d.lastRewardTime >= rewardInterval

(* the window the uptime is measured against *)
ElapsedAt(d, now) ==
  IF d.lastRewardTime # null THEN now - d.lastRewardTime ELSE now - d.startTime

(* uptimePct >= 90 for the ratio of the measured client uptime to the       *)
(* window: uptime * 100 / elapsed >= 90, with both sides divided by 10.      *)
PctAtLeastThreshold(d, now) ==
  /\ d.metrics.uptime # null
  /\ d.metrics.uptime * (percent \div 10) >= (rewardThreshold \div 10) * ElapsedAt(d, now)

(* the step is an evaluation that called sendReward *)
Issued == op'.name = "distributeRewards" /\ trace' = <<"sendReward">>

(* C16: an evaluation at time now calls sendReward if and only if the       *)
(* interval gate is open (lastRewardTime null or now - lastRewardTime >=    *)
(* rewardInterval) and uptimePct >= 90, uptimePct being the client uptime   *)
(* over the elapsed window in percent; in particular sendReward is called   *)
(* when the uptime is exactly 90 percent of the window and is not called    *)
(* just below.                                                              *)
C16_IssuedIffGateAndNinety ==
  [][op'.name = "distributeRewards" =>
       (Issued <=> (GateOpen(monitoringData, clock')
                    /\ PctAtLeastThreshold(monitoringData, clock')))]_vars

(* C17: an evaluation changes lastRewardTime only when sendReward succeeds, *)
(* and then to the now of that evaluation; with the gate closed, with an    *)
(* uptimePct below 90 or with a sendReward that fails, lastRewardTime and   *)
(* the rest of the monitoring data are as before.                           *)
C17_RewardTimeMovesOnSuccessOnly ==
  [][op'.name = "distributeRewards" =>
       /\ op'.type = "sent" =>
            monitoringData' = [monitoringData EXCEPT !.lastRewardTime = clock']
       /\ op'.type # "sent" => monitoringData' = monitoringData
       /\ (~GateOpen(monitoringData, clock')
             \/ ~PctAtLeastThreshold(monitoringData, clock')) => op'.type = ""
       /\ op'.type = "rejected" => trace' = <<"sendReward">>]_vars

(* a sendReward that failed one interval after the last reward *)
C17_Witness ==
  /\ op.name = "distributeRewards"
  /\ op.type = "rejected"
  /\ monitoringData.lastRewardTime = RewardedAt
  /\ clock >= RewardedAt + rewardInterval

---------------------------------------------------------------------------
(* Persistence across restarts *)

(* the file holds a startTime *)
HasStartTime(file) == file # <<>> /\ "startTime" \in DOMAIN file[1]

(* C18: loading a persisted state gives startTime = min(persisted          *)
(* startTime, startTime of the current boot); a persisted state without     *)
(* startTime, or no persisted state, leaves the startTime of the boot; the  *)
(* startTime does not change while the service runs, so over persist /      *)
(* restart / load cycles it never increases.                                *)
C18_StartTimeIsMinimum ==
  [][/\ op'.name = "monitorInit" =>
          monitoringData'.startTime =
            IF HasStartTime(disk) THEN Min(disk[1].startTime, monitoringData.startTime)
            ELSE monitoringData.startTime
     /\ (monitorStarted /\ monitorStarted') =>
          monitoringData'.startTime = monitoringData.startTime
     /\ (monitorStarted' /\ HasStartTime(disk')) =>
          monitoringData'.startTime <= disk'[1].startTime]_vars

(* a later boot has taken the startTime of an earlier one from the file *)
C18_Witness ==
  /\ op.name = "monitorInit"
  /\ HasStartTime(disk)
  /\ clock > FirstBoot
  /\ monitoringData.startTime = FirstBoot

(* C19: what persistData writes is the lastRewardTime, the history and the  *)
(* task list of that moment (with the startTime), and loadPersistedData     *)
(* after a restart gives back the lastRewardTime, history and task list of  *)
(* the file as they are, while metrics and the error counter are the ones   *)
(* of a freshly loaded module.                                              *)
C19_RestoresPersistedFields ==
  [][/\ disk' # disk => disk' = <<dataToPersist(monitoringData')>>
     /\ (op'.name = "monitorInit" /\ disk # <<>>) =>
          /\ monitoringData'.lastRewardTime = Field(disk[1], "lastRewardTime", null)
          /\ monitoringData'.history = Field(disk[1], "history", <<>>)
          /\ monitoringData'.monitoringTasks = Field(disk[1], "monitoringTasks", <<>>)
          /\ monitoringData'.metrics = NoMetrics
          /\ errorCount' = 0
          /\ disk' = disk]_vars

(* a boot that found a reward time, a history and a task in the file *)
C19_Witness ==
  /\ op.name = "monitorInit"
  /\ HasStartTime(disk)
  /\ disk[1].lastRewardTime # null
  /\ disk[1].history # <<>>
  /\ disk[1].monitoringTasks # <<>>
  /\ monitoringData.lastRewardTime = disk[1].lastRewardTime
  /\ monitoringData.history = disk[1].history
  /\ monitoringData.monitoringTasks = disk[1].monitoringTasks
  /\ monitoringData.metrics = NoMetrics

---------------------------------------------------------------------------
(* Cadence of the cron jobs *)

(* the smallest n >= 1 with n whole minutes not shorter than d ms *)
WholeMinutes(d) ==
  CHOOSE n \in 1..(MaxMinutes + 2) :
    /\ n * msPerMinute >= d
    /\ \A k \in 1..(n - 1) : k * msPerMinute < d

(* C20: the job scheduled for an interval of d ms, be it the metrics       *)
(* collection, the status heartbeat or a monitoring task, has a period of   *)
(* ceil(d / 60000) whole minutes and of at least 1 minute: the smallest     *)
(* whole-minute period not shorter than d; 120000 ms gives 2 minutes.       *)
C20_CadenceIsWholeMinutes ==
  cadence.job # "none" =>
    /\ cadence.minutes = WholeMinutes(cadence.interval)
    /\ cadence.minutes >= 1
    /\ cadence.interval = 2 * msPerMinute => cadence.minutes = 2

(* The same for intervals of at least 1 ms, and for the tasks' intervals *)
CadenceOfPositiveOrTask ==
  (cadence.job = "task" \/ (cadence.job # "none" /\ cadence.interval > 0)) =>
    cadence.minutes = WholeMinutes(cadence.interval)
---------------------------------------------------------------------------
(* Inbound payloads for which handleMessage finds no handler: a type that  *)
(* is not registered, no type at all, and text that JSON.parse rejects     *)
Dropped == {"unknown", "untyped", "malformed"}

(* C28: an inbound message with an unknown type, without a type, or with   *)
(* an unparseable payload is dropped: the transport, isConnected,          *)
(* reconnectAttempts, pendingMessages, the reconnect timer and the ping    *)
(* interval are the same after handleMessage as before it, and nothing is  *)
(* transmitted.                                                            *)
C28_UnhandledMessageDropped ==
  [][op'.name = "handleMessage" /\ op'.type \in Dropped =>
       /\ UNCHANGED <<ws, old, isConnected, reconnectAttempts, pendingMessages,
                      reconnectTimeout, pingInterval, connectionStartTime>>
       /\ transmitted' = <<>>]_vars

(* A message without a type has been dropped while the manager was         *)
(* connected with fewer than serverShutdownAttempts attempts counted, a     *)
(* message queued and the ping interval running.                            *)
C28_Witness ==
  /\ op.name = "handleMessage"
  /\ op.type = "untyped"
  /\ isConnected
  /\ reconnectAttempts < serverShutdownAttempts
  /\ pingInterval
  /\ Len(pendingMessages) > 0

---------------------------------------------------------------------------
(* C27: after a metrics collection that succeeded, on the scheduled tick,  *)
(* at startup or on demand, errors.count is 0.                             *)
C27_SuccessResetsErrors == Processed => errorCount = 0

---------------------------------------------------------------------------
(* The collection of the step logged a failing disk or network domain *)
DiskFailed == "warnDisk" \in Range(trace)
NetworkFailed == "warnNetwork" \in Range(trace)

(* C26: when the disk domain or the network domain of a collection fails   *)
(* or runs into its timeout, the snapshot holds the cpu and memory         *)
(* readings and the error marker in that domain, the step processes it as  *)
(* a collected snapshot, and errors.count is not incremented.              *)
C26_DomainFailureKeepsSnapshot ==
  [][DiskFailed' \/ NetworkFailed' =>
       /\ Processed'
       /\ monitoringData'.metrics.timestamp = clock'
       /\ monitoringData'.metrics.cpu \in CpuReadings
       /\ monitoringData'.metrics.memory = "readings"
       /\ monitoringData'.metrics.disk = Domain(DiskFailed')
       /\ monitoringData'.metrics.network = Domain(NetworkFailed')
       /\ monitoringData'.history # monitoringData.history
       /\ errorCount' <= errorCount
       /\ op'.name = "processMetrics" => errorCount' = 0]_vars

(* A metrics tick whose disk collection failed: the first snapshot of the  *)
(* history carries the marker and the readings of the other domains, and   *)
(* the error counter is 0.                                                 *)
C26_Witness ==
  /\ op.name = "processMetrics"
  /\ DiskFailed
  /\ ~NetworkFailed
  /\ monitoringData.metrics.disk = "error"
  /\ monitoringData.metrics.network = "readings"
  /\ monitoringData.metrics.cpu = 1
  /\ Len(monitoringData.history) = 1
  /\ errorCount = 0
  /\ monitoringData.startTime < clock

---------------------------------------------------------------------------
(* The cron jobs. cron.schedule(expression, callback) is called by         *)
(* monitor.init() (metrics), init() of index.js (status) and, for each     *)
(* task, by scheduleMonitoringTasks and scheduleMonitoringTask; the value   *)
(* it returns is dropped, so a job is never stopped. A job is              *)
(*   action, id  what its callback runs (id of the task, 0 otherwise)      *)
(*   interval    the interval in ms it was computed from                   *)
(*   every       the n of its expression '*/n * * * *'                      *)
(*   reports     its catch block sends taskError                           *)
(*   due         the expression matched the minute, the callback is about  *)
(*               to be called                                              *)
(*   running     invocations of the callback that have not returned        *)
(*   last        the minute of the last call of the callback, or null      *)
(*   detached    the task object its callback holds has been spliced out   *)
(*               of monitoringTasks                                        *)
(*   failed      an invocation of the callback has ended in its catch      *)
(*               block (or, for the status job, with a failed update)      *)

minutesPerHour == 60

(* node-cron: '*/n' in the minute field matches the minutes of the hour    *)
(* that are multiples of n                                                 *)
Fires(every, m) == (m % minutesPerHour) % every = 0

Job(action, id, interval, every, reports) ==
  [action |-> action, id |-> id, interval |-> interval, every |-> every,
   reports |-> reports, due |-> FALSE, running |-> 0, last |-> null,
   detached |-> FALSE, failed |-> FALSE]

(* scheduleMonitoringTask(task), for a numeric task.interval *)
scheduleMonitoringTask(js, task) ==
  Append(js, Job("task", task.id, task.interval, minutes(task.interval), FALSE))

(* The jobs when the wall clock reaches minute m *)
Due(js, m) ==
  [j \in 1..Len(js) |-> IF Fires(js[j].every, m) THEN [js[j] EXCEPT !.due = TRUE]
                         ELSE js[j]]

(* node-cron calls the callback of a due job *)
Called(js, j, m) ==
  [js EXCEPT ![j].due = FALSE, ![j].running = @ + 1, ![j].last = m]

(* An invocation that drops its job from the schedule when it fails *)
ReturnedStopsFailed(js, j, ok) ==
  IF ok THEN [js EXCEPT ![j].running = @ - 1]
  ELSE SubSeq(js, 1, j - 1) \o SubSeq(js, j + 1, Len(js))

(* An invocation ends: with its last statement, or in the catch block of   *)
(* the callback, which logs and reports; the job stays as it is.           *)
Returned(js, j, ok) == [js EXCEPT ![j].running = @ - 1, ![j].failed = @ \/ ~ok]

(* The place in monitoringTasks of the task object job j holds, the jobs   *)
(* and the tasks having been appended in the same order                    *)
TaskIndex(js, j) ==
  Cardinality({k \in 1..j : js[k].action = "task" /\ ~js[k].detached})

(* The message of websocketService.send(type, {taskId, ...}) *)
TaskMessage(type, id) == [type |-> type, priority |-> "normal", taskId |-> id]

(* The operation of a step made for job j *)
JobOperation(type, j) == [name |-> "cronJob", type |-> type, priority |-> "", job |-> j]

(* One minute passes on a process none of whose due callbacks is waiting   *)
(* to be called                                                            *)
MinutePasses ==
  /\ \A j \in 1..Len(jobs) : ~jobs[j].due
  /\ minute' = minute + 1
  /\ clock' = clock + msPerMinute
  /\ jobs' = Due(jobs, minute')
  /\ CommitCore(Cur, Operation("time", "", ""), errorCount)
  /\ UNCHANGED <<started, urlInvalid, registered, monitorStarted, startupPending,
                 monitoringData, disk, cadence, proc>>

(* The callback of job j is called and runs up to its first await *)
JobCalled(j) ==
  /\ jobs[j].due
  /\ jobs' = Called(jobs, j, minute)
  /\ CommitCore(Cur, JobOperation("call", j), errorCount)
  /\ UNCHANGED <<started, urlInvalid, registered, monitorStarted, startupPending,
                 monitoringData, disk, clock, cadence, minute, proc>>

(* The metrics callback after its collection: processMetrics, reset of the *)
(* error counter and persistData, or handleMetricsError                    *)
MetricsReturns(j, ok) ==
  LET d == IF ok THEN processMetrics(monitoringData,
                                      collectMetrics(monitoringData, clock, 1, Healthy))
           ELSE monitoringData
      in == In(0, 0, 1, NoThrows)
  IN /\ monitoringData' = d
     /\ disk' = IF ok THEN persistData(d, disk, FALSE) ELSE disk
     /\ CommitCore(IF ~ok THEN handleMetricsError(Cur, errorCount + 1, urlInvalid, in)
                   ELSE IF isSocketConnected(Cur)
                   THEN sendMetrics(Cur, registered, urlInvalid, in)
                   ELSE Cur,
                   JobOperation(IF ok THEN "metrics" ELSE "failed", j),
                   IF ok THEN 0 ELSE errorCount + 1)

(* The status callback after userService.updateStatus(), which catches its *)
(* own errors and returns false                                            *)
StatusReturns(j, ok) ==
  /\ CommitCore(Cur, JobOperation(IF ok THEN "status" ELSE "failed", j), errorCount)
  /\ UNCHANGED <<monitoringData, disk>>

(* The callback of a task job after executeMonitoringTask: taskResult,     *)
(* lastRunTime on the task object and persistData, or the catch block      *)
TaskReturns(j, ok) ==
  LET i == TaskIndex(jobs, j)
      d == IF ok /\ ~jobs[j].detached
           THEN [monitoringData EXCEPT !.monitoringTasks[i].lastRunTime = clock]
           ELSE monitoringData
      in == In(0, 0, 1, NoThrows)
  IN /\ monitoringData' = d
     /\ disk' = IF ok THEN persistData(d, disk, FALSE) ELSE disk
     /\ CommitCore(IF ok
                   THEN send(Cur, TaskMessage("taskResult", jobs[j].id), urlInvalid, 0, in)
                   ELSE IF jobs[j].reports
                   THEN send(Cur, TaskMessage("taskError", jobs[j].id), urlInvalid, 0, in)
                   ELSE Cur,
                   JobOperation(IF ok THEN "taskResult" ELSE "failed", j), errorCount)

(* An invocation of job j returns, having succeeded or failed *)
JobReturns(j, ok) ==
  /\ jobs[j].running > 0
  /\ jobs' = Returned(jobs, j, ok)
  /\ CASE jobs[j].action = "metrics" -> MetricsReturns(j, ok)
       [] jobs[j].action = "status" -> StatusReturns(j, ok)
       [] OTHER -> TaskReturns(j, ok)
  /\ UNCHANGED <<started, urlInvalid, registered, monitorStarted, startupPending,
                 clock, cadence, minute, proc>>

---------------------------------------------------------------------------
(* The jobs of a running client: the metrics job, the status job and the   *)
(* jobs of the tasks, with tasks added and removed, followed for           *)
(* SchedElapsed minutes from minute SchedStart of the hour. An invocation  *)
(* of the status job or of a task job returns at any later time:           *)
(* updateStatus awaits an axios.post without timeout, an http check an     *)
(* axios request with the timeout the task carries. A collection returns   *)
(* within its minute: it awaits the one-second sample of osUtils.cpuUsage  *)
(* and the two races of 5000 ms.                                           *)
SchedStart == 4
SchedElapsed == 4
MaxJobs == 4
Churn == 1
MaxRunning == 2
statusInterval == 300000

(* scheduleMonitoringTasks(): a job for every task of the list *)
RECURSIVE scheduleMonitoringTasks(_, _)
scheduleMonitoringTasks(js, tasks) ==
  IF tasks = <<>> THEN js
  ELSE scheduleMonitoringTasks(
         Append(js, Job("task", Head(tasks).id, Head(tasks).interval,
                        minutes(Head(tasks).interval), TRUE)),
         Tail(tasks))

(* The id the caller gives its tasks *)
GivenId == CHOOSE i \in TaskIds : TRUE

(* The id addMonitoringTask gives a task that has none:                    *)
(* `task_${Date.now()}_${random}`, different from every id in use          *)
GeneratedId(d, js) ==
  1 + Max(Cardinality(TaskIds),
          Max(Len(d.monitoringTasks), Len(js)) + Cardinality(TaskIds))

(* The job whose task object removeMonitoringTask(id) splices out: the     *)
(* first job of a listed task with that id                                 *)
Detached(js, id) ==
  LET held == {j \in 1..Len(js) : js[j].action = "task" /\ js[j].id = id
                                  /\ ~js[j].detached}
  IN IF held = {} THEN js
     ELSE [js EXCEPT ![CHOOSE j \in held : \A k \in held : j <= k].detached = TRUE]

(* The client after init() of index.js: monitor.init() has loaded the file *)
(* (no tasks, or one task) and scheduled the jobs, the websocket is open   *)
(* and authenticated, the user is registered. Tasks are added and removed  *)
(* during the first Churn minutes, and one invocation fails during them.   *)
SchedInit ==
  /\ started = TRUE
  /\ urlInvalid = FALSE
  /\ registered = TRUE
  /\ errorCount = 0
  /\ op = Operation("init", "", "")
  /\ ws = "open"
  /\ old = Loaded.old
  /\ isConnected = TRUE
  /\ reconnectAttempts = 0
  /\ reconnectTimeout = Loaded.reconnectTimeout
  /\ pingInterval = TRUE
  /\ pendingMessages = <<>>
  /\ connectionStartTime = "old"
  /\ ret = Loaded.ret
  /\ trace = Loaded.trace
  /\ transmitted = Loaded.transmitted
  /\ noticed = FALSE
  /\ monitorStarted = TRUE
  /\ startupPending = FALSE
  /\ \E tasks \in {<<>>, <<Task(GivenId, TaskInterval)>>} :
       /\ monitoringData = [DefaultData(FirstBoot) EXCEPT !.monitoringTasks = tasks]
       /\ disk = IF tasks = <<>> THEN <<>> ELSE <<dataToPersist(monitoringData)>>
       /\ jobs = scheduleMonitoringTasks(
                   <<Job("metrics", 0, monitoringInterval,
                         intervalInMinutes(monitoringInterval), FALSE)>>,
                   tasks)
                 \o <<Job("status", 0, statusInterval,
                          statusUpdateInterval(statusInterval), FALSE)>>
  /\ clock = FirstBoot
  /\ cadence = NoCadence
  /\ minute = SchedStart
  /\ proc = Serving

SchedMinute ==
  /\ minute < SchedStart + SchedElapsed
  /\ \A j \in 1..Len(jobs) : jobs[j].action = "metrics" => jobs[j].running = 0
  /\ MinutePasses

(* The invocations that have not returned *)
RECURSIVE InFlight(_)
InFlight(js) == IF js = <<>> THEN 0 ELSE Head(js).running + InFlight(Tail(js))

(* node-cron calls the callback of a due job, whether or not an earlier    *)
(* invocation is still running (at most MaxRunning invocations are         *)
(* followed at a time)                                                     *)
SchedCalled ==
  /\ InFlight(jobs) < MaxRunning
  /\ \E j \in 1..Len(jobs) : JobCalled(j)

SchedReturns ==
  /\ \E j \in 1..Len(jobs), ok \in BOOLEAN :
       /\ ok \/ (minute <= SchedStart + Churn /\ \A k \in 1..Len(jobs) : ~jobs[k].failed)
       /\ JobReturns(j, ok)

(* addMonitoringTask(task) with an id given by the caller or without one:  *)
(* push, schedule, persist                                                 *)
SchedAdd ==
  /\ Len(jobs) < MaxJobs
  /\ minute <= SchedStart + Churn
  /\ \E id \in {GivenId, GeneratedId(monitoringData, jobs)} :
       /\ monitoringData' = addMonitoringTask(monitoringData, Task(id, TaskInterval))
       /\ jobs' = scheduleMonitoringTask(jobs, Task(id, TaskInterval))
       /\ disk' = persistData(monitoringData', disk, FALSE)
       /\ CommitCore([Cur EXCEPT !.ret = "id"],
                     [Operation("addMonitoringTask", "", "") EXCEPT
                        !.type = IF id = GivenId THEN "given" ELSE "generated"],
                     errorCount)
  /\ UNCHANGED <<started, urlInvalid, registered, monitorStarted, startupPending,
                 clock, cadence, minute, proc>>

(* removeMonitoringTask(id): splice and persist and return true, or return *)
(* false                                                                   *)
SchedRemove ==
  /\ minute <= SchedStart + Churn
  /\ \E id \in {GivenId} :
       LET found == findIndex(monitoringData.monitoringTasks, id) # 0
       IN /\ found \/ monitoringData.monitoringTasks = <<>>
          /\ monitoringData' = removeMonitoringTask(monitoringData, id)
          /\ jobs' = Detached(jobs, id)
          /\ disk' = IF found THEN persistData(monitoringData', disk, FALSE) ELSE disk
          /\ CommitCore([Cur EXCEPT !.ret = IF found THEN "true" ELSE "false"],
                        Operation("removeMonitoringTask", "", ""), errorCount)
  /\ UNCHANGED <<started, urlInvalid, registered, monitorStarted, startupPending,
                 clock, cadence, minute, proc>>

SchedNext ==
  \/ SchedMinute
  \/ SchedCalled
  \/ SchedReturns
  \/ SchedAdd
  \/ SchedRemove

SchedSpec == SchedInit /\ [][SchedNext]_vars

---------------------------------------------------------------------------
(* One task job followed over the turn of an hour: the task is added with  *)
(* an interval drawn from Intervals, on a process that was started at the  *)
(* full hour or StartMinute minutes after it, and the wall clock is        *)
(* followed for MaxElapsed minutes.                                        *)
StartMinute == 50
MaxElapsed == 12

CronInit ==
  /\ started = FALSE
  /\ urlInvalid = FALSE
  /\ registered = FALSE
  /\ errorCount = 0
  /\ op = Operation("load", "", "")
  /\ ws = Loaded.ws
  /\ old = Loaded.old
  /\ isConnected = Loaded.isConnected
  /\ reconnectAttempts = Loaded.reconnectAttempts
  /\ reconnectTimeout = Loaded.reconnectTimeout
  /\ pingInterval = Loaded.pingInterval
  /\ pendingMessages = Loaded.pendingMessages
  /\ connectionStartTime = Loaded.connectionStartTime
  /\ ret = Loaded.ret
  /\ trace = Loaded.trace
  /\ transmitted = Loaded.transmitted
  /\ noticed = FALSE
  /\ monitorStarted = FALSE
  /\ startupPending = FALSE
  /\ monitoringData = DefaultData(FirstBoot)
  /\ disk = <<>>
  /\ clock = FirstBoot
  /\ cadence = NoCadence
  /\ minute \in {0, StartMinute}
  /\ jobs = <<>>
  /\ proc = Serving

(* addMonitoringTask({id, interval: d}): push, schedule, persist *)
CronAdd ==
  /\ jobs = <<>>
  /\ \E d \in Intervals, id \in {CHOOSE i \in TaskIds : TRUE} :
       /\ monitoringData' = addMonitoringTask(monitoringData, Task(id, d))
       /\ jobs' = scheduleMonitoringTask(jobs, Task(id, d))
       /\ disk' = persistData(monitoringData', disk, FALSE)
  /\ CommitCore(Cur, Operation("addMonitoringTask", "", ""), errorCount)
  /\ UNCHANGED <<started, urlInvalid, registered, monitorStarted, startupPending,
                 clock, cadence, minute, proc>>

CronMinute ==
  /\ clock < FirstBoot + MaxElapsed * msPerMinute
  /\ MinutePasses

(* The callback of the task job is called *)
CronCalled ==
  /\ \E j \in 1..Len(jobs) : JobCalled(j)

(* The check of the invocation settles within the minute *)
CronReturns ==
  /\ \E j \in 1..Len(jobs), ok \in BOOLEAN : JobReturns(j, ok)

CronNext ==
  \/ CronAdd
  \/ CronMinute
  \/ CronCalled
  \/ CronReturns

CronSpec == CronInit /\ [][CronNext]_vars

(* C21: two consecutive calls of a task job's callback are never less     *)
(* than the task's interval apart: a task scheduled with the interval d    *)
(* starts at most once within any window shorter than d.                   *)
C21_RunsAtLeastIntervalApart ==
  [][\A j \in 1..Len(jobs) :
       (Len(jobs') = Len(jobs) /\ jobs[j].last # null /\ jobs'[j].last # jobs[j].last)
         => (jobs'[j].last - jobs[j].last) * msPerMinute >= jobs[j].interval]_vars

(* n divides the 60 minutes of the hour *)
DividesHour(n) == minutesPerHour % n = 0

(* The calls of a job whose n divides 60 are n minutes apart, which is not *)
(* less than the interval it was computed from.                            *)
RunsOfDivisorApart ==
  [][\A j \in 1..Len(jobs) :
       (Len(jobs') = Len(jobs) /\ jobs[j].last # null /\ jobs'[j].last # jobs[j].last
          /\ DividesHour(jobs[j].every))
         => /\ jobs'[j].last - jobs[j].last = jobs[j].every
            /\ jobs[j].every * msPerMinute >= jobs[j].interval]_vars

---------------------------------------------------------------------------
(* C22: no callback of a job (metrics collection, a monitoring task, the   *)
(* status heartbeat) is called while an earlier invocation of the same job *)
(* has not returned: every job has at most one invocation running.         *)
C22_OneInvocationPerJob == \A j \in 1..Len(jobs) : jobs[j].running <= 1

(* What cron.schedule was given for each job *)
Registered(js) ==
  [j \in 1..Len(js) |-> [action |-> js[j].action, id |-> js[j].id, every |-> js[j].every]]

(* The step was an invocation of a job ending in failure *)
JobFailed == op.name = "cronJob" /\ op.type = "failed"

(* C23: an invocation that fails (a collection that throws, a task of      *)
(* unknown type, a failing check or status update) ends within its         *)
(* callback: the jobs registered are the same after it and the process     *)
(* keeps serving; and whenever a minute begins, every registered job whose *)
(* expression matches it is called, the jobs that have failed before       *)
(* included.                                                               *)
C23_FailureStopsNoJob ==
  [][/\ JobFailed' => Registered(jobs') = Registered(jobs) /\ proc' = Serving
     /\ minute' # minute =>
          /\ Len(jobs') = Len(jobs)
          /\ \A j \in 1..Len(jobs) : Fires(jobs[j].every, minute') => jobs'[j].due]_vars

(* The metrics job, of which an invocation has failed, has been called     *)
(* again, in a minute in which a task job, registered behind it, is due    *)
(* as well.                                                                *)
C23_Witness ==
  /\ op.name = "cronJob"
  /\ op.type = "call"
  /\ jobs[op.job].action = "metrics"
  /\ jobs[op.job].failed
  /\ jobs[op.job].last = minute
  /\ errorCount = 1
  /\ \E k \in 1..Len(jobs) : jobs[k].action = "task" /\ jobs[k].due

(* C24: once removeMonitoringTask(id) has returned true, the job of that   *)
(* task is never called again and no invocation of it sends a taskResult   *)
(* or taskError.                                                           *)
C24_RemovedTaskNeverRuns ==
  [][\A j \in 1..Len(jobs) :
       (jobs[j].detached /\ Len(jobs') = Len(jobs)) =>
         /\ jobs'[j].last = jobs[j].last
         /\ jobs'[j].running < jobs[j].running => transmitted' = <<>>]_vars

(* C25: no two tasks of monitoringTasks have the same id, and no two jobs  *)
(* run the task of the same id.                                            *)
C25_UniqueIdsOneSchedule ==
  /\ \A i, k \in 1..Len(monitoringData.monitoringTasks) :
       monitoringData.monitoringTasks[i].id = monitoringData.monitoringTasks[k].id => i = k
  /\ \A j, k \in 1..Len(jobs) :
       (jobs[j].action = "task" /\ jobs[k].action = "task" /\ jobs[j].id = jobs[k].id)
         => j = k

---------------------------------------------------------------------------
(* Shutdown (index.js, setupGracefulShutdown; monitor.js, lines 84-85).    *)
(* A signal first runs the listener of monitor.init(), persistData(), and  *)
(* then the handler of index.js up to its await.                           *)
MaxSignals == 2

Alive == proc.exit = null

(* A handler that closes the server without arming the 10000 ms timer *)
closeServerNoForce(p) ==
  [p EXCEPT !.server = IF @ = "listening" THEN "closing" ELSE @]

(* server.close(callback) and setTimeout(() => process.exit(1), 10000) *)
closeServer(p) ==
  [p EXCEPT !.server = IF @ = "listening" THEN "closing" ELSE @,
            !.force = @ + 1]

(* The handler of index.js up to its first await: with a registered user   *)
(* and a connected socket it waits 500 ms after send('disconnect'),        *)
(* otherwise it goes on to close the server.                               *)
onSignal(p, notify) ==
  IF notify THEN [p EXCEPT !.signals = @ + 1, !.waits = @ + 1]
  ELSE closeServer([p EXCEPT !.signals = @ + 1])

(* The client after init() of index.js: the server listens, the transport  *)
(* is open or still connecting, the first collection of monitor.init() is  *)
(* outstanding; the file of an earlier run may be there.                   *)
ShutdownInit ==
  /\ started = TRUE
  /\ urlInvalid = FALSE
  /\ registered \in BOOLEAN
  /\ errorCount = 0
  /\ op = Operation("init", "", "")
  /\ ws \in {"open", "connecting"}
  /\ old = Loaded.old
  /\ isConnected = (ws = "open")
  /\ reconnectAttempts = 0
  /\ reconnectTimeout = Loaded.reconnectTimeout
  /\ pingInterval = (ws = "open")
  /\ pendingMessages = <<>>
  /\ connectionStartTime = "old"
  /\ ret = Loaded.ret
  /\ trace = Loaded.trace
  /\ transmitted = Loaded.transmitted
  /\ noticed = FALSE
  /\ monitorStarted = TRUE
  /\ startupPending = TRUE
  /\ disk \in {<<>>, <<SeedFile>>}
  /\ monitoringData = loadPersistedData(DefaultData(FirstBoot), disk)
  /\ clock = FirstBoot
  /\ cadence = NoCadence
  /\ minute = 0
  /\ jobs = <<>>
  /\ proc = Serving

(* SIGTERM or SIGINT: persistData(), then the handler up to its await *)
Signal ==
  /\ Alive
  /\ proc.signals < MaxSignals
  /\ \E writeFails \in BOOLEAN :
       LET notify == registered /\ isSocketConnected(Cur)
           s == [Cur EXCEPT !.trace = <<IF writeFails THEN "persistFailed"
                                        ELSE "persistData">>]
           in == In(0, 0, 1, NoThrows)
       IN /\ disk' = persistData(monitoringData, disk, writeFails)
          /\ proc' = onSignal(proc, notify)
          /\ CommitCore(IF notify
                        THEN send(s, Message("disconnect", "normal"), urlInvalid, 0, in)
                        ELSE s,
                        Operation("signal", IF notify THEN "notify" ELSE "close", ""),
                        errorCount)
  /\ UNCHANGED <<started, urlInvalid, registered, monitorStarted, startupPending,
                 monitoringData, clock, schedVars>>

(* The 500 ms of a handler have passed: server.close, force-exit timer *)
NotifyElapsed ==
  /\ Alive
  /\ proc.waits > 0
  /\ proc' = closeServer([proc EXCEPT !.waits = @ - 1])
  /\ CommitCore(Cur, Operation("notifyElapsed", "", ""), errorCount)
  /\ UNCHANGED <<started, urlInvalid, registered, monVars, schedVars>>

(* The last connection of the closing server has ended: the callback of    *)
(* server.close calls process.exit(0)                                      *)
ServerCloses ==
  /\ Alive
  /\ proc.server = "closing"
  /\ proc' = [proc EXCEPT !.server = "closed", !.exit = 0]
  /\ CommitCore(Cur, Operation("exit", "closed", ""), errorCount)
  /\ UNCHANGED <<started, urlInvalid, registered, monVars, schedVars>>

(* A 10000 ms timer fires: process.exit(1) *)
ForceExit ==
  /\ Alive
  /\ proc.force > 0
  /\ proc' = [proc EXCEPT !.force = @ - 1, !.exit = 1]
  /\ CommitCore(Cur, Operation("exit", "forced", ""), errorCount)
  /\ UNCHANGED <<started, urlInvalid, registered, monVars, schedVars>>

(* What the running process does before and during the shutdown: the       *)
(* first collection resolves, the metrics job ticks (followed for the      *)
(* first EarlyTicks ticks), GET /metrics arrives                           *)
ShutdownCollection == Alive /\ StartupCollection
ShutdownTick == Alive /\ Early(clock + monitoringInterval) /\ MetricsTick
ShutdownGetMetrics == Alive /\ GetMetrics

(* The 60 s interval of websocket.init() fires during the shutdown, on a   *)
(* transport whose ws.send does not throw                                  *)
ShutdownHealthCheck ==
  /\ Alive
  /\ proc.signals > 0
  /\ isConnected => ~MustThrow(Cur)
  /\ Commit(checkConnection(Cur, urlInvalid, 0, In(0, 0, 1, NoThrows)),
            Operation("checkConnection", "ping", "low"), errorCount)
  /\ UNCHANGED <<started, urlInvalid, registered>>

ShutdownNext ==
  \/ Signal
  \/ NotifyElapsed
  \/ ServerCloses
  \/ ForceExit
  \/ ShutdownCollection
  \/ ShutdownTick
  \/ ShutdownGetMetrics
  \/ ShutdownHealthCheck

(* The timers of the event loop fire; nothing is assumed of the server's   *)
(* connections.                                                            *)
ShutdownSpec ==
  /\ ShutdownInit
  /\ [][ShutdownNext]_vars
  /\ WF_vars(NotifyElapsed)
  /\ WF_vars(ForceExit)

(* C29: after a termination signal the process exits, with status 0 when   *)
(* the HTTP server has closed and with the forced exit of the 10000 ms     *)
(* timer when it has not, whether or not the server ever closes.           *)
C29_SignalLeadsToExit ==
  /\ (proc.signals > 0) ~> (proc.exit # null)
  /\ [](proc.exit = 0 => proc.server = "closed")
  /\ [](proc.exit # null /\ proc.server # "closed" =>
          proc.exit = 1 /\ op = Operation("exit", "forced", ""))

(* The forced exit of a process that was notifying when the second signal  *)
(* came and whose server never closed                                      *)
C29_Witness ==
  /\ proc.exit = 1
  /\ proc.server = "closing"
  /\ proc.signals = MaxSignals
  /\ op = Operation("exit", "forced", "")

(* The step handled a termination signal, and its write did not fail *)
Checkpointed == op.name = "signal" /\ "persistData" \in Range(trace)

(* C30: the handling of a termination signal writes the checkpoint         *)
(* {startTime, lastRewardTime, history, monitoringTasks} of the state at   *)
(* the time of the signal, unless the write itself fails; the process      *)
(* exits, with status 0 or forced, only after a signal has been handled.   *)
C30_CheckpointBeforeExit ==
  /\ [][op'.name = "signal" =>
          /\ Checkpointed' \/ "persistFailed" \in Range(trace')
          /\ Checkpointed' =>
               /\ disk' = <<dataToPersist(monitoringData)>>
               /\ monitoringData' = monitoringData]_vars
  /\ [](proc.exit # null => proc.signals > 0)

(* A forced exit before the first metrics tick: the file holds the point   *)
(* the first collection pushed, which only the checkpoint of the signal    *)
(* can have written.                                                       *)
C30_Witness ==
  /\ proc.exit = 1
  /\ clock = FirstBoot
  /\ Len(monitoringData.history) = 1
  /\ disk = <<dataToPersist(monitoringData)>>

---------------------------------------------------------------------------
(* C36: a signal of a transport that connect() has replaced changes        *)
(* nothing of the connection state: isConnected, the ping interval,        *)
(* reconnectAttempts, the reconnect timer and the transport ws refers to   *)
(* are after the step what they were before it.                            *)
C36_StaleSignalsIgnored ==
  [][op'.name \in {"handleError", "handleClose"} /\ op'.type = "replaced" =>
       UNCHANGED <<ws, isConnected, pingInterval, reconnectAttempts, reconnectTimeout>>]_vars

---------------------------------------------------------------------------
(* The delay of the timer scheduleReconnect sets when it finds             *)
(* reconnectAttempts at n and Math.random() gives rnd / RandDenom          *)
DelayAfter(n, rnd) ==
  scheduleReconnect([Loaded EXCEPT !.reconnectAttempts = n], rnd).reconnectTimeout.delay

(* C32: an 'error' handled less than 5000 ms after connect() recorded       *)
(* connectionStartTime adds 2 to reconnectAttempts, a later one leaves it   *)
(* as it is; for the same jitter the delay the next scheduleReconnect sets  *)
(* is not smaller after the error than it would have been before it.       *)
C32_EarlyErrorAddsTwo ==
  [][op'.name = "handleError" =>
       /\ reconnectAttempts' =
            reconnectAttempts + (IF connectionStartTime = "recent" THEN 2 ELSE 0)
       /\ \A r \in Rnd :
            DelayAfter(reconnectAttempts', r) >= DelayAfter(reconnectAttempts, r)]_vars

(* The error of a connection attempt that followed a first reconnect, less *)
(* than 5000 ms after its start: the count went from 1 to 3                 *)
C32_Witness ==
  /\ op = Operation("handleError", "current", "")
  /\ connectionStartTime = "recent"
  /\ reconnectAttempts = 3
  /\ old = NoOld

---------------------------------------------------------------------------
(* The ws.send calls that threw inside send() during the step, one inside  *)
(* the other: the entries "throw" of the trace ahead of the flush.         *)
RECURSIVE Nested(_, _)
Nested(t, i) ==
  IF i > Len(t) \/ t[i] = "flush" THEN 0
  ELSE (IF t[i] = "throw" THEN 1 ELSE 0) + Nested(t, i + 1)

(* C37: a call of send() returns without the chain send -> checkConnection *)
(* -> sendPing -> send having used up the call stack, however many of the  *)
(* ws.send calls throw.                                                    *)
C37_SendChainEnds == Nested(trace, 1) <= StackLimit

---------------------------------------------------------------------------
(* The place of the first entry x in the sequence t, 0 if there is none *)
RECURSIVE Position(_, _, _)
Position(t, x, i) ==
  IF i > Len(t) THEN 0 ELSE IF t[i] = x THEN i ELSE Position(t, x, i + 1)

(* C34: handleOpen starts the ping interval first; with a registered user  *)
(* it then calls authenticate, whose message is the first one on the wire, *)
(* and flushes the queue only after that; without a registered user no     *)
(* authenticate message goes out.                                          *)
C34_AuthenticateBeforeFlush ==
  op.name = "handleOpen" =>
    /\ Position(trace, "startPing", 1) = 1
    /\ registered =>
         /\ Position(trace, "authenticate", 1) = 2
         /\ Position(trace, "flush", 1) # 0 => Position(trace, "flush", 1) > 2
         /\ transmitted # <<>>
         /\ transmitted[1] = Message("authenticate", "high")
    /\ ~registered =>
         /\ Position(trace, "authenticate", 1) = 0
         /\ Message("authenticate", "high") \notin Range(transmitted)

---------------------------------------------------------------------------
(* The high-priority messages of a sequence *)
RECURSIVE HighIn(_, _)
HighIn(q, i) ==
  IF i > Len(q) THEN 0
  ELSE (IF q[i].priority = "high" THEN 1 ELSE 0) + HighIn(q, i + 1)

(* The high-priority messages a step hands to send(): the one of an        *)
(* exported send with priority high, the taskResult of a task message and  *)
(* the authenticate of handleOpen for a registered user                    *)
Accepted(o, isReg) ==
  IF \/ o.name = "send" /\ o.priority = "high"
     \/ o.name = "handleMessage" /\ o.type = "task"
     \/ o.name = "handleOpen" /\ isReg
  THEN 1 ELSE 0

(* C35: no high-priority message is lost or doubled. In every step the     *)
(* high-priority messages held in pendingMessages after the step, together *)
(* with those the step put on the wire, are those held before the step     *)
(* together with the one the step accepted: each accepted message stays in *)
(* the queue, once, until the step that transmits it, once.                *)
C35_HighPriorityConserved ==
  [][HighIn(pendingMessages', 1) + HighIn(transmitted', 1) =
       HighIn(pendingMessages, 1) + Accepted(op', registered)]_vars

---------------------------------------------------------------------------
(* C40: a call of getMetrics() leaves the snapshot, the history, the task  *)
(* list, the error counter and pendingMessages as they are and puts no     *)
(* message on the wire.                                                    *)
C40_GetMetricsReadsOnly ==
  [][op'.name = "getMetrics" =>
       /\ UNCHANGED <<monitoringData, errorCount, pendingMessages>>
       /\ transmitted' = <<>>]_vars

---------------------------------------------------------------------------
(* C31: once a termination signal has been handled no timer callback runs  *)
(* any more: no reconnect timer, ping, health check, metrics tick or task  *)
(* run starts in the process that is shutting down.                        *)
C31_NoTimerAfterSignal ==
  [][proc.signals > 0 =>
       op'.name \notin {"reconnectTimer", "pingTimer", "checkConnection",
                        "processMetrics", "handleMetricsError", "taskRun"}]_vars

---------------------------------------------------------------------------
(* uptimePercentage <= 100 in an evaluation of the data d at time now that *)
(* has a client uptime to divide                                           *)
PctAtMostHundred(d, now) ==
  \/ d.metrics.uptime \in {null, 0}
  \/ GE(Num(percent), uptimePercentage(d.metrics.uptime, ElapsedAt(d, now)))

(* C39: in every evaluation that passes the interval gate the uptime       *)
(* percentage is at most 100, so that the amount handed to sendReward,     *)
(* rewardAmount * (uptimePercentage / 100), is at most rewardAmount; also  *)
(* when the window starts at lastRewardTime.                               *)
C39_PercentageAtMostHundred ==
  [][op'.name = "distributeRewards" /\ GateOpen(monitoringData, clock') =>
       PctAtMostHundred(monitoringData, clock')]_vars

---------------------------------------------------------------------------
(* distributeRewards() as the two steps it takes: the call up to           *)
(* `await solanaService.sendReward(rewardAmount)`, and the rest once the   *)
(* transaction has resolved or been rejected. Other calls may run between  *)
(* the two.                                                                *)
MaxIssuing == 2

(* The sequence q without its i-th element *)
Without(q, i) == SubSeq(q, 1, i - 1) \o SubSeq(q, i + 1, Len(q))

(* The call at time now, up to the await: the gate, the percentage, and    *)
(* the call of sendReward                                                  *)
EvaluateStarts ==
  /\ monitorStarted
  /\ \E now \in Nows :
       LET calls == distributeRewards(monitoringData, now, TRUE).sent
       IN /\ now > clock
          /\ calls => Len(proc.issuing) < MaxIssuing
          /\ proc' = [proc EXCEPT !.issuing = IF calls THEN Append(@, now) ELSE @]
          /\ CommitCore([Cur EXCEPT !.trace = IF calls THEN <<"sendReward">> ELSE <<>>],
                        Operation("distributeRewards", IF calls THEN "awaiting" ELSE "", ""),
                        errorCount)
          /\ clock' = now
  /\ UNCHANGED <<started, urlInvalid, registered, monitorStarted, startupPending,
                 monitoringData, disk, schedVars>>

(* sendReward of the i-th suspended call settles: when it resolved, the    *)
(* call assigns the now it read to lastRewardTime                          *)
SendSettles ==
  /\ \E i \in 1..Len(proc.issuing), ok \in BOOLEAN :
       /\ proc' = [proc EXCEPT !.issuing = Without(@, i)]
       /\ monitoringData' = IF ok THEN [monitoringData EXCEPT
                                          !.lastRewardTime = proc.issuing[i]]
                            ELSE monitoringData
       /\ CommitCore(Cur, Operation("sendReward", IF ok THEN "sent" ELSE "rejected", ""),
                     errorCount)
  /\ UNCHANGED <<started, urlInvalid, registered, monitorStarted, startupPending,
                 disk, clock, schedVars>>

IssueNext ==
  \/ EvaluateStarts
  \/ SendSettles

IssueSpec == RewardInit /\ [][IssueNext]_vars

(* C38: a reward that is issued successfully is issued at least            *)
(* rewardInterval after the reward issued successfully before it, also     *)
(* when the evaluations overlap.                                           *)
C38_RewardsOneIntervalApart ==
  [][op'.name = "sendReward" /\ op'.type = "sent" /\ Truthy(monitoringData.lastRewardTime) =>
       monitoringData'.lastRewardTime - monitoringData.lastRewardTime >= rewardInterval]_vars

---------------------------------------------------------------------------
(* C33: handling a serverShutdown notice leaves reconnectAttempts at 5 or  *)
(* more, never lowers it and changes nothing else of the connection state; *)
(* the first reconnect scheduled after the notice counts attempt 6 or      *)
(* more, with the base delay at its cap or with the cooldown.              *)
NoticeStep(o) == o.name = "handleMessage" /\ o.type = "serverShutdown"

C33_NoticeBiasesBackoff ==
  [][/\ NoticeStep(op') =>
          /\ reconnectAttempts' >= serverShutdownAttempts
          /\ reconnectAttempts' >= reconnectAttempts
          /\ UNCHANGED <<ws, old, isConnected, reconnectTimeout, pingInterval,
                         pendingMessages, connectionStartTime>>
          /\ transmitted' = <<>>
     /\ noticed /\ ~NoticeStep(op') /\ "scheduleReconnect" \in Range(trace') =>
          /\ reconnectAttempts' >= serverShutdownAttempts + 1
          /\ reconnectTimeout'.state = "pending"
          /\ \/ reconnectTimeout'.kind = "cooldown" /\ reconnectAttempts' > maxReconnectAttempts
             \/ /\ reconnectTimeout'.kind = "backoff"
                /\ reconnectTimeout'.delay >= maxDelayCap]_vars

====
